---------------------------- MODULE Spec2Model ----------------------------
(***************************************************************************)
(* A model of the schematic layout engine of filter-forge                  *)
(* (CircuitDiagram.tsx): the dispatch of CircuitDiagram and the three      *)
(* layout strategies LadderTLayout, LatticeLayout and SallenKeyLayout.     *)
(*                                                                         *)
(* A scene is the ordered sequence of elements a layout emits.  Every      *)
(* element is a record                                                     *)
(*   [kind, part, comp, gtype, pts, extra, text]                           *)
(* kind  : "line" | "circle" | "text" | "glyph" | "ground" | "opamp"       *)
(* part  : what the element is in the drawing (the JSX key or comment)     *)
(* comp  : the input component the JSX expression reads, or NoComp         *)
(* gtype : the `type` prop handed to a glyph, "" otherwise                 *)
(* pts   : the anchor points, in order; for a glyph the conductor path     *)
(*         from its first terminal to its second                           *)
(* extra : anchor points of decoration off the conductor path (capacitor   *)
(*         plates, the bars of a ground symbol, op-amp pin marks)          *)
(* text  : the characters of a text element, <<>> otherwise                *)
(* Strings the code inspects (component ids) are sequences of one-char     *)
(* strings; fixed labels are one-token sequences.                          *)
(***************************************************************************)
EXTENDS Integers, Sequences, FiniteSets, TLC

\* The props of CircuitDiagram.  components is [null, items]: null = TRUE
\* stands for the prop `components` being null, items is the array otherwise.
\* topology is a topology name or Null; an impedance is a number or NoImpedance.
VARIABLES components, topology, sourceImpedance, loadImpedance

\* What the last render returned (NotRendered before the first render), the
\* layout strategies it invoked, in order, and what its call of
\* parseSallenKeyStages returned (<<>> when it made none).
VARIABLES output, invoked, stages

\* One call of an arbitrary-direction glyph generator: its props
\* [type, x1, y1, x2, y2] and the points it drew (<<>> before the call).
VARIABLES segment, drawn

\* One call of a formatter of lib/units.ts: the quantity [kind, value] it is
\* given and the text it returned (<<>> before the call).
VARIABLES quantity, formatted

\* FilterForm: the state of the form (its useState values), the params
\* handed to onSubmit so far, and the number of events handled.
VARIABLES form, submitted, events

vars == <<components, topology, sourceImpedance, loadImpedance, output, invoked, stages,
          segment, drawn, quantity, formatted,
          form, submitted, events>>

(***************************************************************************)
(* Bounds of the checked input space.                                      *)
(***************************************************************************)
MaxLadderLen == 3
MaxLatticeLen == 5
MaxStageListLen == 3
MaxDispatchLen == 2

Null == "null"
NoImpedance == -1

(***************************************************************************)
(* Layout constants (CircuitDiagram.tsx, "Layout constants").              *)
(***************************************************************************)
MAIN_Y == 50
GND_Y == 170
MARGIN_LEFT == 80
WIRE_GAP == 30
SHUNT_SECTION_W == 80
SERIES_W == 60
CAP_W == 40
WIRE_CENTER_Y == 10

(***************************************************************************)
(* Sequence helpers.                                                       *)
(***************************************************************************)
RECURSIVE Concat(_)
Concat(ss) == IF ss = <<>> THEN <<>> ELSE Head(ss) \o Concat(Tail(ss))

Count(s, P(_)) == Cardinality({i \in 1..Len(s) : P(s[i])})

SeqsUpTo(S, n) == UNION {[1..k -> S] : k \in 0..n}

Pt(x, y) == <<x, y>>
X(p) == p[1]
Y(p) == p[2]

(***************************************************************************)
(* Scene elements.                                                         *)
(***************************************************************************)
NoComp == [id |-> <<>>, type |-> "none", position |-> "none"]

Line(part, comp, x1, y1, x2, y2) ==
  [kind |-> "line", part |-> part, comp |-> comp, gtype |-> "",
   pts |-> <<Pt(x1, y1), Pt(x2, y2)>>, extra |-> <<>>, text |-> <<>>]

Circle(part, comp, cx, cy) ==
  [kind |-> "circle", part |-> part, comp |-> comp, gtype |-> "",
   pts |-> <<Pt(cx, cy)>>, extra |-> <<>>, text |-> <<>>]

Text(part, comp, x, y, text) ==
  [kind |-> "text", part |-> part, comp |-> comp, gtype |-> "",
   pts |-> <<Pt(x, y)>>, extra |-> <<>>, text |-> text]

GlyphEl(part, comp, type, pts, extra) ==
  [kind |-> "glyph", part |-> part, comp |-> comp, gtype |-> type,
   pts |-> pts, extra |-> extra, text |-> <<>>]

Translate(ps, x, y) == [i \in 1..Len(ps) |-> Pt(X(ps[i]) + x, Y(ps[i]) + y)]

(***************************************************************************)
(* formatComponentValue: the dispatch on the component type.  Components   *)
(* carry no value here, so the value line of a label is the name of the    *)
(* formatter that lib/units.ts applies to it.                              *)
(***************************************************************************)
Digit(d) == <<"0", "1", "2", "3", "4", "5", "6", "7", "8", "9">>[d + 1]

RECURSIVE Decimal(_)
Decimal(n) == IF n < 10 THEN <<Digit(n)>> ELSE Decimal(n \div 10) \o <<Digit(n % 10)>>

Abs(i) == IF i < 0 THEN 0 - i ELSE i

Sign(i) == IF i < 0 THEN 0 - 1 ELSE 1

(***************************************************************************)
(* lib/units.ts.  A value is the decimal number m * 10^x, kept as [m, x];  *)
(* the binary rounding of floating point is not modelled.  Texts are       *)
(* sequences of characters.  Number.prototype.toString is modelled for     *)
(* the numbers it prints in plain decimal notation (1e-6 <= |v| < 1e21).   *)
(***************************************************************************)
Dec(m, x) == [m |-> m, x |-> x]

RECURSIVE NumDigits(_)
NumDigits(n) == IF n < 10 THEN 1 ELSE 1 + NumDigits(n \div 10)

RECURSIVE Pow10(_)
Pow10(k) == IF k = 0 THEN 1 ELSE 10 * Pow10(k - 1)

\* floor(log10(|v|)) for v # 0
Magnitude(v) == NumDigits(Abs(v.m)) - 1 + v.x

\* Math.abs(v) >= 1e<t>
AtLeast(v, t) == v.m # 0 /\ Magnitude(v) >= t

\* v * 1e<k> (v / 1e<-k> for k < 0)
Times10(v, k) == Dec(v.m, v.x + k)

\* the number written by value.toPrecision(precision): the digits beyond
\* the first `precision` are rounded away, a half rounding up in magnitude
toPrecision(v, precision) ==
  LET drop == NumDigits(Abs(v.m)) - precision
  IN IF drop <= 0 THEN v
     ELSE LET p == Pow10(drop)
              q == Abs(v.m) \div p
              r == Abs(v.m) % p
          IN Dec(Sign(v.m) * (IF 2 * r >= p THEN q + 1 ELSE q), v.x + drop)

\* trailing zeros behind the decimal point are not part of the number
RECURSIVE WithoutTrailingZeros(_)
WithoutTrailingZeros(v) ==
  IF v.m # 0 /\ v.m % 10 = 0 /\ v.x < 0
  THEN WithoutTrailingZeros(Dec(v.m \div 10, v.x + 1))
  ELSE v

Zeros(k) == [i \in 1..k |-> "0"]

\* parseFloat(s).toString()
NumberToString(v) ==
  LET s == WithoutTrailingZeros(v)
      digits == Decimal(Abs(s.m))
      n == Len(digits)
  IN (IF s.m < 0 THEN <<"-">> ELSE <<>>)
     \o (IF s.x >= 0 THEN digits \o Zeros(s.x)
         ELSE IF n > 0 - s.x
              THEN SubSeq(digits, 1, n + s.x) \o <<".">> \o SubSeq(digits, n + s.x + 1, n)
              ELSE <<"0", ".">> \o Zeros(0 - s.x - n) \o digits)

formatValue(value) ==
  IF value.m = 0 THEN <<"0">> ELSE NumberToString(toPrecision(value, 3))

\* stands for the character U+03A9 of the source
OMEGA == "Ohm"

formatCapacitance(valueInFarads) ==
  IF valueInFarads.m = 0 THEN <<"0", " ", "F">>
  ELSE IF AtLeast(valueInFarads, 0 - 3)
       THEN formatValue(Times10(valueInFarads, 3)) \o <<" ", "m", "F">>
  ELSE IF AtLeast(valueInFarads, 0 - 6)
       THEN formatValue(Times10(valueInFarads, 6)) \o <<" ", "u", "F">>
  ELSE IF AtLeast(valueInFarads, 0 - 9)
       THEN formatValue(Times10(valueInFarads, 9)) \o <<" ", "n", "F">>
  ELSE formatValue(Times10(valueInFarads, 12)) \o <<" ", "p", "F">>

formatInductance(valueInHenrys) ==
  IF valueInHenrys.m = 0 THEN <<"0", " ", "H">>
  ELSE IF AtLeast(valueInHenrys, 0)
       THEN formatValue(valueInHenrys) \o <<" ", "H">>
  ELSE IF AtLeast(valueInHenrys, 0 - 3)
       THEN formatValue(Times10(valueInHenrys, 3)) \o <<" ", "m", "H">>
  ELSE formatValue(Times10(valueInHenrys, 6)) \o <<" ", "u", "H">>

formatResistance(valueInOhms) ==
  IF valueInOhms.m = 0 THEN <<"0", " ", OMEGA>>
  ELSE IF AtLeast(valueInOhms, 6)
       THEN formatValue(Times10(valueInOhms, 0 - 6)) \o <<" ", "M", OMEGA>>
  ELSE IF AtLeast(valueInOhms, 3)
       THEN formatValue(Times10(valueInOhms, 0 - 3)) \o <<" ", "k", OMEGA>>
  ELSE formatValue(valueInOhms) \o <<" ", OMEGA>>

formatComponentValue(comp) ==
  CASE comp.type = "capacitor" -> <<"formatCapacitance">>
    [] comp.type = "inductor" -> <<"formatInductance">>
    [] comp.type = "resistor" -> <<"formatResistance">>
    [] comp.type = "opamp" -> <<"Op-Amp">>
    [] OTHER -> <<>>

(***************************************************************************)
(* SeriesGlyph: a horizontal glyph in a 60 px slot, translated by (x, y).  *)
(* A type without a case renders nothing.                                  *)
(***************************************************************************)
SeriesGlyph(part, comp, type, x, y) ==
  CASE type = "resistor" ->
         <<GlyphEl(part, comp, type,
             Translate(<<Pt(0, 10), Pt(10, 10), Pt(15, 0), Pt(25, 20), Pt(35, 0),
                         Pt(45, 20), Pt(50, 10), Pt(60, 10)>>, x, y), <<>>)>>
    [] type = "inductor" ->
         <<GlyphEl(part, comp, type,
             Translate(<<Pt(0, 10), Pt(6, 10), Pt(18, 10), Pt(30, 10), Pt(42, 10),
                         Pt(54, 10), Pt(60, 10)>>, x, y), <<>>)>>
    [] type = "capacitor" ->
         <<GlyphEl(part, comp, type,
             Translate(<<Pt(0, 10), Pt(26, 10), Pt(34, 10), Pt(60, 10)>>, x, y),
             Translate(<<Pt(26, -2), Pt(26, 22), Pt(34, -2), Pt(34, 22)>>, x, y))>>
    [] OTHER -> <<>>

(***************************************************************************)
(* ShuntGlyph: a vertical glyph hanging from (centerX, topY).              *)
(***************************************************************************)
ShuntGlyph(part, comp, type, centerX, topY) ==
  CASE type = "capacitor" ->
         LET h == CAP_W
             midY == topY + h \div 2
         IN <<GlyphEl(part, comp, type,
                <<Pt(centerX, topY), Pt(centerX, midY - 4),
                  Pt(centerX, midY + 4), Pt(centerX, topY + h)>>,
                <<Pt(centerX - 12, midY - 4), Pt(centerX + 12, midY - 4),
                  Pt(centerX - 12, midY + 4), Pt(centerX + 12, midY + 4)>>)>>
    [] type = "inductor" ->
         LET h == SERIES_W
             startY == topY
         IN <<GlyphEl(part, comp, type,
                <<Pt(centerX, startY), Pt(centerX, startY + 6), Pt(centerX, startY + 18),
                  Pt(centerX, startY + 30), Pt(centerX, startY + 42),
                  Pt(centerX, startY + 54), Pt(centerX, startY + h)>>, <<>>)>>
    [] type = "resistor" ->
         LET h == SERIES_W
             startY == topY
         IN <<GlyphEl(part, comp, type,
                <<Pt(centerX, startY), Pt(centerX, startY + 10),
                  Pt(centerX - 10, startY + 15), Pt(centerX + 10, startY + 25),
                  Pt(centerX - 10, startY + 35), Pt(centerX + 10, startY + 45),
                  Pt(centerX, startY + 50), Pt(centerX, startY + h)>>, <<>>)>>
    [] OTHER -> <<>>

shuntHeightAlwaysSeriesW(type) == SERIES_W

shuntHeight(type) == IF type = "capacitor" THEN CAP_W ELSE SERIES_W

\* the symbol left in its local frame: the group's translate(x, y) dropped
GroundWithoutTranslate(part, comp, x, y) ==
  [kind |-> "ground", part |-> part, comp |-> comp, gtype |-> "",
   pts |-> <<Pt(0, 0), Pt(0, 6)>>,
   extra |-> <<Pt(-8, 6), Pt(8, 6), Pt(-5, 10), Pt(5, 10), Pt(-2, 14), Pt(2, 14)>>,
   text |-> <<>>]

Ground(part, comp, x, y) ==
  [kind |-> "ground", part |-> part, comp |-> comp, gtype |-> "",
   pts |-> <<Pt(x, y), Pt(x, y + 6)>>,
   extra |-> Translate(<<Pt(-8, 6), Pt(8, 6), Pt(-5, 10), Pt(5, 10),
                         Pt(-2, 14), Pt(2, 14)>>, x, y),
   text |-> <<>>]

(***************************************************************************)
(* LadderTLayout, pass 1: one sweep over the components keeping the        *)
(* horizontal cursor.  A placed item is [kind, comp, x] for a series item  *)
(* (x its left edge) and [kind, comp, centerX] for a shunt item.           *)
(***************************************************************************)
LadderStartX == MARGIN_LEFT

SeriesAdvance == SERIES_W + WIRE_GAP

\* the advance of a series item taken from its type as the shunt height is
PlaceItemAdvanceByType(comp, xCursor) ==
  IF comp.position = "series"
  THEN [item |-> [kind |-> "series", comp |-> comp, x |-> xCursor],
        xCursor |-> xCursor + shuntHeight(comp.type) + WIRE_GAP]
  ELSE [item |-> [kind |-> "shunt", comp |-> comp,
                  centerX |-> xCursor + SHUNT_SECTION_W \div 2],
        xCursor |-> xCursor + SHUNT_SECTION_W]

PlaceItemShuntKeepsCursor(comp, xCursor) ==
  IF comp.position = "series"
  THEN [item |-> [kind |-> "series", comp |-> comp, x |-> xCursor],
        xCursor |-> xCursor + SeriesAdvance]
  ELSE [item |-> [kind |-> "shunt", comp |-> comp,
                  centerX |-> xCursor + SHUNT_SECTION_W \div 2],
        xCursor |-> xCursor]

PlaceItem(comp, xCursor) ==
  IF comp.position = "series"
  THEN [item |-> [kind |-> "series", comp |-> comp, x |-> xCursor],
        xCursor |-> xCursor + SeriesAdvance]
  ELSE [item |-> [kind |-> "shunt", comp |-> comp,
                  centerX |-> xCursor + SHUNT_SECTION_W \div 2],
        xCursor |-> xCursor + SHUNT_SECTION_W]

RECURSIVE LadderPass1(_, _, _, _)
LadderPass1(comps, i, xCursor, placed) ==
  IF i > Len(comps) THEN [placed |-> placed, xCursor |-> xCursor]
  ELSE LET p == PlaceItem(comps[i], xCursor)
       IN LadderPass1(comps, i + 1, p.xCursor, Append(placed, p.item))

(***************************************************************************)
(* LadderTLayout, pass 2: the elements of one placed item, given the right *)
(* terminal x of what precedes it (prevEndX).                              *)
(***************************************************************************)
LadderLineY == MAIN_Y + WIRE_CENTER_Y

\* the connecting wire emitted whether or not the terminals coincide
LadderSeriesElementsAlwaysWired(item, prevEndX) ==
  <<Line("wire-to", item.comp, prevEndX, LadderLineY, item.x, LadderLineY)>>
  \o SeriesGlyph("series", item.comp, item.comp.type, item.x, MAIN_Y)
  \o <<Text("id", item.comp, item.x + SERIES_W \div 2, MAIN_Y - 16, item.comp.id),
       Text("value", item.comp, item.x + SERIES_W \div 2, MAIN_Y - 4,
            formatComponentValue(item.comp))>>

\* the id line of the label left out
LadderSeriesElementsValueOnly(item, prevEndX) ==
  (IF prevEndX < item.x
   THEN <<Line("wire-to", item.comp, prevEndX, LadderLineY, item.x, LadderLineY)>>
   ELSE <<>>)
  \o SeriesGlyph("series", item.comp, item.comp.type, item.x, MAIN_Y)
  \o <<Text("value", item.comp, item.x + SERIES_W \div 2, MAIN_Y - 4,
            formatComponentValue(item.comp))>>

LadderSeriesElements(item, prevEndX) ==
  (IF prevEndX < item.x
   THEN <<Line("wire-to", item.comp, prevEndX, LadderLineY, item.x, LadderLineY)>>
   ELSE <<>>)
  \o SeriesGlyph("series", item.comp, item.comp.type, item.x, MAIN_Y)
  \o <<Text("id", item.comp, item.x + SERIES_W \div 2, MAIN_Y - 16, item.comp.id),
       Text("value", item.comp, item.x + SERIES_W \div 2, MAIN_Y - 4,
            formatComponentValue(item.comp))>>

LadderShuntElements(item, prevEndX) ==
  LET shuntRightX == item.centerX + SHUNT_SECTION_W \div 2
      compTopY == LadderLineY + 10
      h == shuntHeight(item.comp.type)
      labelX == item.centerX + 18
      labelY == compTopY + h \div 2
      compBottomY == compTopY + h
  IN (IF prevEndX < item.centerX
      THEN <<Line("wire-to-shunt", item.comp, prevEndX, LadderLineY,
                  item.centerX, LadderLineY)>>
      ELSE <<>>)
     \o <<Line("wire-past-shunt", item.comp, item.centerX, LadderLineY,
               shuntRightX, LadderLineY),
          Circle("dot", item.comp, item.centerX, LadderLineY),
          Line("shunt-wire-top", item.comp, item.centerX, LadderLineY,
               item.centerX, compTopY)>>
     \o ShuntGlyph("shunt", item.comp, item.comp.type, item.centerX, compTopY)
     \o <<Text("id", item.comp, labelX, labelY - 6, item.comp.id),
          Text("value", item.comp, labelX, labelY + 6, formatComponentValue(item.comp)),
          Line("shunt-wire-bot", item.comp, item.centerX, compBottomY,
               item.centerX, GND_Y),
          Ground("gnd", item.comp, item.centerX, GND_Y)>>

\* the right terminal of a series item taken to be the advanced cursor
RECURSIVE LadderPass2EndAtCursor(_, _, _, _)
LadderPass2EndAtCursor(placed, i, prevEndX, elements) ==
  IF i > Len(placed) THEN [elements |-> elements, prevEndX |-> prevEndX]
  ELSE LET item == placed[i]
       IN IF item.kind = "series"
          THEN LadderPass2EndAtCursor(placed, i + 1, item.x + SeriesAdvance,
                           elements \o LadderSeriesElements(item, prevEndX))
          ELSE LadderPass2EndAtCursor(placed, i + 1, item.centerX + SHUNT_SECTION_W \div 2,
                           elements \o LadderShuntElements(item, prevEndX))

RECURSIVE LadderPass2(_, _, _, _)
LadderPass2(placed, i, prevEndX, elements) ==
  IF i > Len(placed) THEN [elements |-> elements, prevEndX |-> prevEndX]
  ELSE LET item == placed[i]
       IN IF item.kind = "series"
          THEN LadderPass2(placed, i + 1, item.x + SERIES_W,
                           elements \o LadderSeriesElements(item, prevEndX))
          ELSE LadderPass2(placed, i + 1, item.centerX + SHUNT_SECTION_W \div 2,
                           elements \o LadderShuntElements(item, prevEndX))

ImpedanceLabel(impedance, symbol) ==
  IF impedance # NoImpedance THEN formatResistance(Dec(impedance, 0)) ELSE <<symbol>>

LadderTLayout(comps, rs, rl) ==
  LET p1 == LadderPass1(comps, 1, LadderStartX, <<>>)
      endX == p1.xCursor + 40
      totalWidth == endX + 60
      totalHeight == GND_Y + 20
      lineY == LadderLineY
      source == <<Text("port-name", NoComp, 10, MAIN_Y - 16, <<"Rs">>),
                  Text("port-value", NoComp, 10, MAIN_Y - 4, ImpedanceLabel(rs, "Rs")),
                  Circle("rs", NoComp, 40, lineY),
                  Line("rs", NoComp, 40, lineY, MARGIN_LEFT, lineY),
                  Line("rs-gnd", NoComp, 40, lineY, 40, GND_Y),
                  Ground("rs-gnd", NoComp, 40, GND_Y)>>
      p2 == LadderPass2(p1.placed, 1, MARGIN_LEFT, <<>>)
      rlX == endX
      load == <<Line("wire-to-rl", NoComp, p2.prevEndX, lineY, rlX, lineY),
                Circle("rl", NoComp, rlX, lineY),
                Text("port-name", NoComp, rlX + 8, MAIN_Y - 16, <<"Rl">>),
                Text("port-value", NoComp, rlX + 8, MAIN_Y - 4, ImpedanceLabel(rl, "Rl")),
                Line("rl-gnd", NoComp, rlX, lineY, rlX, GND_Y),
                Ground("rl-gnd", NoComp, rlX, GND_Y)>>
      gndLine == <<Line("gnd-line", NoComp, 30, GND_Y, rlX + 10, GND_Y)>>
  IN [kind |-> "svg", layout |-> "ladder", width |-> totalWidth, height |-> totalHeight,
      elements |-> gndLine \o source \o p2.elements \o load]

(***************************************************************************)
(* DirectionalGlyph: a glyph drawn along the segment (x1,y1) -> (x2,y2).   *)
(* All three generators start their path at (x1,y1) and end it at (x2,y2); *)
(* pts holds these two terminals.  A type without a case renders nothing.  *)
(***************************************************************************)
DirectionalGlyph(part, comp, type, x1, y1, x2, y2) ==
  IF type \in {"capacitor", "inductor", "resistor"}
  THEN <<GlyphEl(part, comp, type, <<Pt(x1, y1), Pt(x2, y2)>>, <<>>)>>
  ELSE <<>>

(***************************************************************************)
(* LatticeLayout.                                                          *)
(***************************************************************************)
sectionW == 160
railGap == 120
gapBetween == 40
latticeMarginL == 80
latticeMarginR == 80
latticeTopPad == 40

latticeTopY == latticeTopPad
latticeBotY == latticeTopPad + railGap
\* the pitch taken as the section width alone
sectionSpanWithoutGap == sectionW

sectionSpan == sectionW + gapBetween

PairStep == 2

\* the loop test written with length - 2
SectionLoopStopsEarly(i, n) == i < n - 2

\* i < components.length - 1, i the 0-based index
SectionLoopContinues(i, n) == i < n - 1

\* the two members of the pair exchanged
MakeSectionSwapped(a, b) == [seriesComp |-> b, shuntComp |-> a]

\* { seriesComp: components[i]!, shuntComp: components[i + 1]! }
MakeSection(a, b) == [seriesComp |-> a, shuntComp |-> b]

\* for (let i = 0; i < components.length - 1; i += 2): i is the 0-based index
RECURSIVE LatticeSections(_, _, _)
LatticeSections(comps, i, sections) ==
  IF SectionLoopContinues(i, Len(comps))
  THEN LatticeSections(comps, i + PairStep,
         Append(sections, MakeSection(comps[i + 1], comps[i + 2])))
  ELSE sections

\* the labels of the bottom rail left out
LatticeRailLabelsTopOnly(sec, TL, TR, BL, BR) ==
  <<Text("id", sec.seriesComp, (X(TL) + X(TR)) \div 2, latticeTopY - 20, sec.seriesComp.id),
    Text("value", sec.seriesComp, (X(TL) + X(TR)) \div 2, latticeTopY - 8,
         formatComponentValue(sec.seriesComp))>>

LatticeRailLabels(sec, TL, TR, BL, BR) ==
  <<Text("id", sec.seriesComp, (X(TL) + X(TR)) \div 2, latticeTopY - 20, sec.seriesComp.id),
    Text("value", sec.seriesComp, (X(TL) + X(TR)) \div 2, latticeTopY - 8,
         formatComponentValue(sec.seriesComp)),
    Text("id", sec.seriesComp, (X(BL) + X(BR)) \div 2, latticeBotY + 16, sec.seriesComp.id),
    Text("value", sec.seriesComp, (X(BL) + X(BR)) \div 2, latticeBotY + 28,
         formatComponentValue(sec.seriesComp))>>

LatticeZb1Labels(sec, zb1Mid) ==
  <<Text("id", sec.shuntComp, X(zb1Mid) - 16, Y(zb1Mid) - 4, sec.shuntComp.id),
    Text("value", sec.shuntComp, X(zb1Mid) - 16, Y(zb1Mid) + 10,
         formatComponentValue(sec.shuntComp))>>

LatticeZb2Labels(sec, zb2Mid) ==
  <<Text("id", sec.shuntComp, X(zb2Mid) + 16, Y(zb2Mid) - 4, sec.shuntComp.id),
    Text("value", sec.shuntComp, X(zb2Mid) + 16, Y(zb2Mid) + 10,
         formatComponentValue(sec.shuntComp))>>

\* the glyph of the BL-TR diagonal drawn on its first half, before the crossing
LatticeSectionElementsGlyphsBeforeCrossing(sec, idx) ==
  LET x0 == latticeMarginL + idx * sectionSpan
      x1 == x0 + sectionW
      TL == Pt(x0, latticeTopY)
      TR == Pt(x1, latticeTopY)
      BL == Pt(x0, latticeBotY)
      BR == Pt(x1, latticeBotY)
      cx == (x0 + x1) \div 2
      cy == (latticeTopY + latticeBotY) \div 2
      zb1Mid == Pt((X(TL) + cx) \div 2, (Y(TL) + cy) \div 2)
      zb2Mid == Pt((cx + X(TR)) \div 2, (cy + Y(TR)) \div 2)
  IN <<Circle("node", NoComp, X(TL), Y(TL)), Circle("node", NoComp, X(TR), Y(TR)),
       Circle("node", NoComp, X(BL), Y(BL)), Circle("node", NoComp, X(BR), Y(BR))>>
     \o DirectionalGlyph("za-top", sec.seriesComp, sec.seriesComp.type,
                         X(TL), Y(TL), X(TR), Y(TR))
     \o DirectionalGlyph("za-bot", sec.seriesComp, sec.seriesComp.type,
                         X(BL), Y(BL), X(BR), Y(BR))
     \o LatticeRailLabels(sec, TL, TR, BL, BR)
     \o DirectionalGlyph("zb1", sec.shuntComp, sec.shuntComp.type, X(TL), Y(TL), cx, cy)
     \o <<Line("zb1-wire", sec.shuntComp, cx, cy, X(BR), Y(BR))>>
     \o LatticeZb1Labels(sec, zb1Mid)
     \o DirectionalGlyph("zb2", sec.shuntComp, sec.shuntComp.type, X(BL), Y(BL), cx, cy)
     \o <<Line("zb2-wire", sec.shuntComp, cx, cy, X(TR), Y(TR))>>
     \o LatticeZb2Labels(sec, zb2Mid)
     \o (IF idx > 0
         THEN <<Line("inter-section", NoComp, x0 - gapBetween, latticeTopY,
                     X(TL), latticeTopY),
                Line("inter-section", NoComp, x0 - gapBetween, latticeBotY,
                     X(BL), latticeBotY)>>
         ELSE <<>>)

\* sections.map((sec, idx) => ...), idx 0-based
LatticeSectionElements(sec, idx) ==
  LET x0 == latticeMarginL + idx * sectionSpan
      x1 == x0 + sectionW
      TL == Pt(x0, latticeTopY)
      TR == Pt(x1, latticeTopY)
      BL == Pt(x0, latticeBotY)
      BR == Pt(x1, latticeBotY)
      cx == (x0 + x1) \div 2
      cy == (latticeTopY + latticeBotY) \div 2
      zb1Mid == Pt((X(TL) + cx) \div 2, (Y(TL) + cy) \div 2)
      zb2Mid == Pt((cx + X(TR)) \div 2, (cy + Y(TR)) \div 2)
  IN <<Circle("node", NoComp, X(TL), Y(TL)), Circle("node", NoComp, X(TR), Y(TR)),
       Circle("node", NoComp, X(BL), Y(BL)), Circle("node", NoComp, X(BR), Y(BR))>>
     \o DirectionalGlyph("za-top", sec.seriesComp, sec.seriesComp.type,
                         X(TL), Y(TL), X(TR), Y(TR))
     \o DirectionalGlyph("za-bot", sec.seriesComp, sec.seriesComp.type,
                         X(BL), Y(BL), X(BR), Y(BR))
     \o LatticeRailLabels(sec, TL, TR, BL, BR)
     \o DirectionalGlyph("zb1", sec.shuntComp, sec.shuntComp.type, X(TL), Y(TL), cx, cy)
     \o <<Line("zb1-wire", sec.shuntComp, cx, cy, X(BR), Y(BR))>>
     \o LatticeZb1Labels(sec, zb1Mid)
     \o <<Line("zb2-wire", sec.shuntComp, X(BL), Y(BL), cx, cy)>>
     \o DirectionalGlyph("zb2", sec.shuntComp, sec.shuntComp.type, cx, cy, X(TR), Y(TR))
     \o LatticeZb2Labels(sec, zb2Mid)
     \o (IF idx > 0
         THEN <<Line("inter-section", NoComp, x0 - gapBetween, latticeTopY,
                     X(TL), latticeTopY),
                Line("inter-section", NoComp, x0 - gapBetween, latticeBotY,
                     X(BL), latticeBotY)>>
         ELSE <<>>)

LatticeSource(rs) ==
  LET firstX == latticeMarginL
      topY == latticeTopY
      botY == latticeBotY
  IN <<Line("source", NoComp, latticeMarginL - 30, topY, firstX, topY),
       Line("source", NoComp, latticeMarginL - 30, botY, firstX, botY),
       Text("port-name", NoComp, 14, (topY + botY) \div 2 - 8, <<"Rs">>),
       Text("port-value", NoComp, 14, (topY + botY) \div 2 + 6, ImpedanceLabel(rs, "Rs")),
       Circle("source", NoComp, latticeMarginL - 30, topY),
       Circle("source", NoComp, latticeMarginL - 30, botY),
       Text("polarity", NoComp, latticeMarginL - 30, topY - 10, <<"+">>),
       Text("polarity", NoComp, latticeMarginL - 30, botY + 40, <<"-">>)>>

\* the load attached to the right corners of the first section
LatticeLoadAtFirstSection(rl, nSections) ==
  LET lastRightX == latticeMarginL + sectionW
      topY == latticeTopY
      botY == latticeBotY
  IN <<Line("load", NoComp, lastRightX, topY, lastRightX + 30, topY),
       Line("load", NoComp, lastRightX, botY, lastRightX + 30, botY),
       Circle("load", NoComp, lastRightX + 30, topY),
       Circle("load", NoComp, lastRightX + 30, botY),
       Text("port-name", NoComp, lastRightX + 40, (topY + botY) \div 2 - 8, <<"Rl">>),
       Text("port-value", NoComp, lastRightX + 40, (topY + botY) \div 2 + 6,
            ImpedanceLabel(rl, "Rl")),
       Text("polarity", NoComp, lastRightX + 30, topY - 10, <<"+">>),
       Text("polarity", NoComp, lastRightX + 30, botY + 40, <<"-">>)>>

LatticeLoad(rl, nSections) ==
  LET lastRightX == latticeMarginL + (nSections - 1) * sectionSpan + sectionW
      topY == latticeTopY
      botY == latticeBotY
  IN <<Line("load", NoComp, lastRightX, topY, lastRightX + 30, topY),
       Line("load", NoComp, lastRightX, botY, lastRightX + 30, botY),
       Circle("load", NoComp, lastRightX + 30, topY),
       Circle("load", NoComp, lastRightX + 30, botY),
       Text("port-name", NoComp, lastRightX + 40, (topY + botY) \div 2 - 8, <<"Rl">>),
       Text("port-value", NoComp, lastRightX + 40, (topY + botY) \div 2 + 6,
            ImpedanceLabel(rl, "Rl")),
       Text("polarity", NoComp, lastRightX + 30, topY - 10, <<"+">>),
       Text("polarity", NoComp, lastRightX + 30, botY + 40, <<"-">>)>>

LatticeLayout(comps, rs, rl) ==
  LET sections == LatticeSections(comps, 0, <<>>)
      totalWidth == latticeMarginL + Len(sections) * sectionSpan - gapBetween
                    + latticeMarginR
      totalHeight == latticeBotY + 50
  IN [kind |-> "svg", layout |-> "lattice", width |-> totalWidth, height |-> totalHeight,
      elements |->
        Concat([k \in 1..Len(sections) |-> LatticeSectionElements(sections[k], k - 1)])
        \o (IF Len(sections) > 0 THEN LatticeSource(rs) ELSE <<>>)
        \o (IF Len(sections) > 0 THEN LatticeLoad(rl, Len(sections)) ELSE <<>>)]

(***************************************************************************)
(* Stage tags: comp.id.match(/^S(\d+)_/), parseInt(match[1], 10) and       *)
(* id.replace(/^S\d+_/, ''), on ids that are sequences of characters.      *)
(***************************************************************************)
Digits == {"0", "1", "2", "3", "4", "5", "6", "7", "8", "9"}

DigitValue(c) == CHOOSE d \in 0..9 : Digit(d) = c

\* the number of digits of id from position i on
RECURSIVE DigitRun(_, _)
DigitRun(id, i) ==
  IF i <= Len(id) /\ id[i] \in Digits THEN 1 + DigitRun(id, i + 1) ELSE 0

\* the length of the match of /^S\d+_/ at the start of id, 0 when there is none
StagePrefixLen(id) ==
  IF Len(id) >= 1 /\ id[1] = "S"
  THEN LET n == DigitRun(id, 2)
       IN IF n >= 1 /\ Len(id) >= n + 2 /\ id[n + 2] = "_" THEN n + 2 ELSE 0
  ELSE 0

RECURSIVE ParseInt(_)
ParseInt(ds) ==
  IF ds = <<>> THEN 0
  ELSE 10 * ParseInt(SubSeq(ds, 1, Len(ds) - 1)) + DigitValue(ds[Len(ds)])

SentinelStageNum == 0

\* the default written as 1: match ? parseInt(match[1], 10) : 1
StageNumOfDefaultOne(id) ==
  LET m == StagePrefixLen(id)
  IN IF m > 0 THEN ParseInt(SubSeq(id, 2, m - 1)) ELSE 1

StageNumOf(id) ==
  LET m == StagePrefixLen(id)
  IN IF m > 0 THEN ParseInt(SubSeq(id, 2, m - 1)) ELSE SentinelStageNum

\* the prefix taken to be the first three characters: id.slice(3)
StripStagePrefixBySlice(id) == SubSeq(id, 4, Len(id))

StripStagePrefix(id) == SubSeq(id, StagePrefixLen(id) + 1, Len(id))

(***************************************************************************)
(* parseSallenKeyStages: one pass over the components.  The loop state is  *)
(* [stages, currentPassive, currentStageNum]; a stage is                   *)
(* [stageNum, passiveComps, opamp], opamp = NoComp standing for null.      *)
(***************************************************************************)
\* the tag test written with > in place of !==
TagClosesStageOnlyWhenGreater(stageNum, currentStageNum, currentPassive) ==
  stageNum > currentStageNum /\ Len(currentPassive) > 0

TagClosesStage(stageNum, currentStageNum, currentPassive) ==
  stageNum # currentStageNum /\ Len(currentPassive) > 0

\* the type test against a misspelt type name
IsOpampMisspelt(comp) == comp.type = "op-amp"

IsOpamp(comp) == comp.type = "opamp"

ParseStep(st, comp) ==
  LET stageNum == StageNumOf(comp.id)
      closed == TagClosesStage(stageNum, st.currentStageNum, st.currentPassive)
      stages1 == IF closed
                 THEN Append(st.stages, [stageNum |-> st.currentStageNum,
                                         passiveComps |-> st.currentPassive,
                                         opamp |-> NoComp])
                 ELSE st.stages
      passive1 == IF closed THEN <<>> ELSE st.currentPassive
  IN IF IsOpamp(comp)
     THEN [stages |-> Append(stages1, [stageNum |-> stageNum, passiveComps |-> passive1,
                                       opamp |-> comp]),
           currentPassive |-> <<>>,
           currentStageNum |-> 0]
     ELSE [stages |-> stages1,
           currentPassive |-> Append(passive1, comp),
           currentStageNum |-> stageNum]

RECURSIVE ParseLoop(_, _, _)
ParseLoop(comps, i, st) ==
  IF i > Len(comps) THEN st ELSE ParseLoop(comps, i + 1, ParseStep(st, comps[i]))

\* the passives pending after the loop not pushed as a last stage
parseSallenKeyStagesWithoutFlush(comps) ==
  ParseLoop(comps, 1, [stages |-> <<>>, currentPassive |-> <<>>,
                       currentStageNum |-> 0]).stages

parseSallenKeyStages(comps) ==
  LET st == ParseLoop(comps, 1, [stages |-> <<>>, currentPassive |-> <<>>,
                                 currentStageNum |-> 0])
  IN IF Len(st.currentPassive) > 0
     THEN Append(st.stages, [stageNum |-> st.currentStageNum,
                             passiveComps |-> st.currentPassive, opamp |-> NoComp])
     ELSE st.stages

(***************************************************************************)
(* OpAmpGlyph: the triangle in its fixed local frame, translated by (x,y); *)
(* extra holds the anchors of the "+" and "-" pin marks.                   *)
(***************************************************************************)
OpAmpGlyph(x, y) ==
  [kind |-> "opamp", part |-> "opamp", comp |-> NoComp, gtype |-> "",
   pts |-> Translate(<<Pt(0, 0), Pt(40, 20), Pt(0, 40)>>, x, y),
   extra |-> Translate(<<Pt(6, 16), Pt(6, 34)>>, x, y), text |-> <<>>]

(***************************************************************************)
(* SallenKeyLayout.                                                        *)
(***************************************************************************)
stageW == 340
stageGap == 40
skMarginL == 40
skMarginR == 40
skTopPad == 14
mainLineY == 100
gndY == 220
opAmpX == 230

opAmpY == mainLineY + WIRE_CENTER_Y - 10
fbPathY == mainLineY - 40
invFbY == mainLineY + WIRE_CENTER_Y + 50
skLineY == mainLineY + WIRE_CENTER_Y

\* passives.filter(c => c.position === position)
WithPosition(passives, position) == SelectSeq(passives, LAMBDA c : c.position = position)

\* the first passive taken when none has the position: find(...) ?? passives[0]
FindPositionOrFirst(passives, position) ==
  LET found == WithPosition(passives, position)
  IN IF found = <<>> THEN (IF passives = <<>> THEN NoComp ELSE passives[1])
     ELSE found[1]

\* passives.find(c => c.position === position) ?? null
FindPosition(passives, position) ==
  LET found == WithPosition(passives, position)
  IN IF found = <<>> THEN NoComp ELSE found[1]

\* both series slots reading seriesComps[0]
SeriesSlotAlwaysFirst(seriesComps, k) ==
  IF Len(seriesComps) >= k THEN seriesComps[1] ELSE NoComp

\* seriesComps[k] && (...), k the 1-based index
SeriesSlot(seriesComps, k) == IF Len(seriesComps) >= k THEN seriesComps[k] ELSE NoComp

\* the series glyph placed with its top edge, not its terminals, on the
\* signal line
SKSeriesElementsAtLineY(part, comp, x) ==
  IF comp = NoComp THEN <<>>
  ELSE SeriesGlyph(part, comp, comp.type, x, skLineY)
       \o <<Text("id", comp, x + SERIES_W \div 2, mainLineY - 14, StripStagePrefix(comp.id)),
            Text("value", comp, x + SERIES_W \div 2, mainLineY - 2,
                 formatComponentValue(comp))>>

SKSeriesElements(part, comp, x) ==
  IF comp = NoComp THEN <<>>
  ELSE SeriesGlyph(part, comp, comp.type, x, mainLineY)
       \o <<Text("id", comp, x + SERIES_W \div 2, mainLineY - 14, StripStagePrefix(comp.id)),
            Text("value", comp, x + SERIES_W \div 2, mainLineY - 2,
                 formatComponentValue(comp))>>

SKShuntElements(shuntComp, junction2X) ==
  IF shuntComp = NoComp THEN <<>>
  ELSE LET lineY == skLineY
           h == shuntHeight(shuntComp.type)
       IN <<Line("shunt-wire-top", shuntComp, junction2X, lineY, junction2X, lineY + 10)>>
          \o ShuntGlyph("shunt", shuntComp, shuntComp.type, junction2X, lineY + 10)
          \o <<Text("id", shuntComp, junction2X + 18, lineY + 10 + h \div 2 - 4,
                    StripStagePrefix(shuntComp.id)),
               Text("value", shuntComp, junction2X + 18, lineY + 10 + h \div 2 + 8,
                    formatComponentValue(shuntComp)),
               Line("shunt-wire-bot", shuntComp, junction2X, lineY + 10 + h,
                    junction2X, gndY),
               Ground("gnd", shuntComp, junction2X, gndY)>>

\* the feedback glyph placed with its top edge, not its terminals, on the
\* feedback path
SKFeedbackElementsGlyphAtPathY(fbComp, junctionX, opOutX, opOutY) ==
  IF fbComp = NoComp THEN <<>>
  ELSE LET lineY == skLineY
           fbEndX == opOutX + 8
       IN <<Line("fb-up", fbComp, junctionX, lineY, junctionX, fbPathY)>>
          \o SeriesGlyph("feedback", fbComp, fbComp.type, junctionX, fbPathY)
          \o <<Line("fb-across", fbComp, junctionX + SERIES_W, fbPathY, fbEndX, fbPathY),
               Line("fb-down", fbComp, fbEndX, fbPathY, fbEndX, opOutY),
               Line("fb-back", fbComp, fbEndX, opOutY, opOutX, opOutY),
               Circle("fb-dot", fbComp, fbEndX, opOutY),
               Text("id", fbComp, junctionX + SERIES_W \div 2,
                    fbPathY - WIRE_CENTER_Y - 12, StripStagePrefix(fbComp.id)),
               Text("value", fbComp, junctionX + SERIES_W \div 2,
                    fbPathY - WIRE_CENTER_Y - 1, formatComponentValue(fbComp))>>

SKFeedbackElements(fbComp, junctionX, opOutX, opOutY) ==
  IF fbComp = NoComp THEN <<>>
  ELSE LET lineY == skLineY
           fbEndX == opOutX + 8
       IN <<Line("fb-up", fbComp, junctionX, lineY, junctionX, fbPathY)>>
          \o SeriesGlyph("feedback", fbComp, fbComp.type, junctionX,
                         fbPathY - WIRE_CENTER_Y)
          \o <<Line("fb-across", fbComp, junctionX + SERIES_W, fbPathY, fbEndX, fbPathY),
               Line("fb-down", fbComp, fbEndX, fbPathY, fbEndX, opOutY),
               Line("fb-back", fbComp, fbEndX, opOutY, opOutX, opOutY),
               Circle("fb-dot", fbComp, fbEndX, opOutY),
               Text("id", fbComp, junctionX + SERIES_W \div 2,
                    fbPathY - WIRE_CENTER_Y - 12, StripStagePrefix(fbComp.id)),
               Text("value", fbComp, junctionX + SERIES_W \div 2,
                    fbPathY - WIRE_CENTER_Y - 1, formatComponentValue(fbComp))>>

SKInvertingLoop(stageX, opOutX, opOutY) ==
  LET invPinX == stageX + opAmpX
      invPinY == opAmpY + 30
      invWireX == invPinX - 10
      invEndX == opOutX + 16
  IN <<Line("inv-loop", NoComp, invPinX, invPinY, invWireX, invPinY),
       Line("inv-loop", NoComp, invWireX, invPinY, invWireX, invFbY),
       Line("inv-loop", NoComp, invWireX, invFbY, invEndX, invFbY),
       Line("inv-loop", NoComp, invEndX, invFbY, invEndX, opOutY),
       Line("inv-loop", NoComp, invEndX, opOutY, opOutX, opOutY),
       Circle("inv-dot", NoComp, invEndX, opOutY)>>

SKOpampLabel(stage, stageX) ==
  IF stage.opamp = NoComp THEN <<>>
  ELSE <<Text("id", stage.opamp, stageX + opAmpX + 20, opAmpY - 6,
              StripStagePrefix(stage.opamp.id))>>

\* a connector drawn after the last stage too
HasInterStageAfterEvery(stageIdx, nStages) == stageIdx < nStages

\* stageIdx < stages.length - 1
HasInterStage(stageIdx, nStages) == stageIdx < nStages - 1

\* stages.map((stage, stageIdx) => ...), stageIdx 0-based
SKStageElements(stage, stageIdx, nStages) ==
  LET stageX == skMarginL + stageIdx * (stageW + stageGap)
      passives == stage.passiveComps
      seriesComps == WithPosition(passives, "series")
      fbComp == FindPosition(passives, "feedback")
      shuntComp == FindPosition(passives, "shunt")
      lineY == skLineY
      s1x == stageX + 10
      s2x == stageX + 110
      junctionX == s1x + SERIES_W + 15
      junction2X == s2x + SERIES_W + 10
      opOutX == stageX + opAmpX + 40
      opOutY == opAmpY + 20
  IN <<Text("stage-label", NoComp, stageX + stageW \div 2, skTopPad,
            <<"Stage ">> \o Decimal(stage.stageNum)),
       Line("input-wire", NoComp, stageX, lineY, s1x, lineY)>>
     \o SKSeriesElements("series1", SeriesSlot(seriesComps, 1), s1x)
     \o <<Line("wire-to-junction1", NoComp, s1x + SERIES_W, lineY, junctionX, lineY),
          Circle("junction1", NoComp, junctionX, lineY),
          Line("wire-to-series2", NoComp, junctionX, lineY, s2x, lineY)>>
     \o SKSeriesElements("series2", SeriesSlot(seriesComps, 2), s2x)
     \o <<Line("wire-to-junction2", NoComp, s2x + SERIES_W, lineY, junction2X, lineY),
          Circle("junction2", NoComp, junction2X, lineY)>>
     \o SKShuntElements(shuntComp, junction2X)
     \o SKFeedbackElements(fbComp, junctionX, opOutX, opOutY)
     \o <<Line("wire-to-opamp", NoComp, junction2X, lineY, stageX + opAmpX, lineY)>>
     \o SKInvertingLoop(stageX, opOutX, opOutY)
     \o <<OpAmpGlyph(stageX + opAmpX, opAmpY)>>
     \o SKOpampLabel(stage, stageX)
     \o <<Line("output-wire", NoComp, opOutX, opOutY, stageX + stageW, opOutY)>>
     \o (IF HasInterStage(stageIdx, nStages)
         THEN <<Line("inter-stage", NoComp, stageX + stageW, opOutY,
                     stageX + stageW + stageGap, lineY)>>
         ELSE <<>>)

SallenKeyLayout(comps) ==
  LET parsed == parseSallenKeyStages(comps)
      n == Len(parsed)
      totalWidth == skMarginL + n * (stageW + stageGap) - stageGap + skMarginR
      totalHeight == gndY + 30
  IN [kind |-> "svg", layout |-> "sallen-key", width |-> totalWidth,
      height |-> totalHeight,
      elements |->
        <<Line("gnd-line", NoComp, 20, gndY, totalWidth - 20, gndY),
          Text("vin", NoComp, skMarginL - 30, mainLineY + WIRE_CENTER_Y + 4, <<"Vin">>)>>
        \o Concat([k \in 1..n |-> SKStageElements(parsed[k], k - 1, n)])
        \o (IF n > 0
            THEN <<Text("vout", NoComp, skMarginL + n * (stageW + stageGap) - stageGap + 4,
                        mainLineY + WIRE_CENTER_Y + 4, <<"Vout">>)>>
            ELSE <<>>)]

(***************************************************************************)
(* Numbers of the arbitrary-direction generators.  A JavaScript number is  *)
(* modelled as an exact fraction n/d (d > 0, in lowest terms), or as one   *)
(* of the special values NaN, +Infinity, -Infinity, with the IEEE 754      *)
(* rules for them: 0/0 = NaN, x/0 = +-Infinity, 0 * Infinity = NaN,        *)
(* Infinity - Infinity = NaN, and NaN in gives NaN out.  Rounding of       *)
(* finite results is not modelled.                                         *)
(***************************************************************************)
RECURSIVE GCD(_, _)
GCD(a, b) == IF b = 0 THEN a ELSE GCD(b, a % b)

NaN == [k |-> "nan", n |-> 0, d |-> 1]

Infinity(s) == [k |-> "inf", n |-> s, d |-> 1]

\* the fraction n/d, d # 0, in lowest terms with a positive denominator
Fin(n, d) ==
  LET g == GCD(Abs(n), Abs(d))
  IN [k |-> "fin", n |-> Sign(d) * (n \div g), d |-> Abs(d) \div g]

Num(i) == [k |-> "fin", n |-> i, d |-> 1]

IsFinite(a) == a.k = "fin"

NumAdd(a, b) ==
  CASE a.k = "nan" \/ b.k = "nan" -> NaN
    [] a.k = "inf" /\ b.k = "inf" -> IF a.n = b.n THEN a ELSE NaN
    [] a.k = "inf" -> a
    [] b.k = "inf" -> b
    [] OTHER -> Fin(a.n * b.d + b.n * a.d, a.d * b.d)

NumNeg(a) == IF a.k = "nan" THEN NaN ELSE [a EXCEPT !.n = 0 - a.n]

NumSub(a, b) == NumAdd(a, NumNeg(b))

NumMul(a, b) ==
  CASE a.k = "nan" \/ b.k = "nan" -> NaN
    [] a.k = "inf" \/ b.k = "inf" ->
         IF a.n = 0 \/ b.n = 0 THEN NaN ELSE Infinity(Sign(a.n) * Sign(b.n))
    [] OTHER -> Fin(a.n * b.n, a.d * b.d)

NumDiv(a, b) ==
  CASE a.k = "nan" \/ b.k = "nan" -> NaN
    [] a.k = "inf" /\ b.k = "inf" -> NaN
    [] a.k = "inf" -> Infinity(Sign(a.n) * Sign(b.n))
    [] b.k = "inf" -> Num(0)
    [] b.n = 0 -> IF a.n = 0 THEN NaN ELSE Infinity(Sign(a.n))
    [] OTHER -> Fin(a.n * b.d, a.d * b.n)

\* Math.sqrt of an integer that is a perfect square
Sqrt(i) == Num(CHOOSE r \in 0..i : r * r = i)

IsSquare(i) == \E r \in 0..i : r * r = i

NumPt(x, y) == [x |-> x, y |-> y]

\* (x1, y1) + t * (ux, uy) + s * (nx, ny)
Along(x1, y1, t, ux, uy, s, nx, ny) ==
  NumPt(NumAdd(NumAdd(x1, NumMul(t, ux)), NumMul(s, nx)),
        NumAdd(NumAdd(y1, NumMul(t, uy)), NumMul(s, ny)))

(***************************************************************************)
(* DirectionalCapacitor, DirectionalInductor, DirectionalResistor: the     *)
(* points of the glyph drawn along the segment (x1,y1) -> (x2,y2), in the  *)
(* order the code emits them.                                              *)
(***************************************************************************)
\* len, then the unit vector (ux, uy) and its perpendicular (nx, ny)
Direction(x1, y1, x2, y2) ==
  LET dx == x2 - x1
      dy == y2 - y1
      len == Sqrt(dx * dx + dy * dy)
      ux == NumDiv(Num(dx), len)
      uy == NumDiv(Num(dy), len)
  IN [len |-> len, ux |-> ux, uy |-> uy, nx |-> NumNeg(uy), ny |-> ux]

\* the two lead-in points, the ends of the two plates, the two lead-out points
DirectionalCapacitor(x1, y1, x2, y2) ==
  LET mx == NumDiv(Num(x1 + x2), Num(2))
      my == NumDiv(Num(y1 + y2), Num(2))
      dir == Direction(x1, y1, x2, y2)
      gap == Num(4)
      plateLen == Num(12)
      p1 == Along(mx, my, NumNeg(gap), dir.ux, dir.uy, Num(0), dir.nx, dir.ny)
      p2 == Along(mx, my, gap, dir.ux, dir.uy, Num(0), dir.nx, dir.ny)
  IN <<NumPt(Num(x1), Num(y1)), p1,
       Along(p1.x, p1.y, Num(0), dir.ux, dir.uy, NumNeg(plateLen), dir.nx, dir.ny),
       Along(p1.x, p1.y, Num(0), dir.ux, dir.uy, plateLen, dir.nx, dir.ny),
       Along(p2.x, p2.y, Num(0), dir.ux, dir.uy, NumNeg(plateLen), dir.nx, dir.ny),
       Along(p2.x, p2.y, Num(0), dir.ux, dir.uy, plateLen, dir.nx, dir.ny),
       p2, NumPt(Num(x2), Num(y2))>>

\* M start, L arcStart, four times Q control end, L end
DirectionalInductor(x1, y1, x2, y2) ==
  LET dir == Direction(x1, y1, x2, y2)
      coilLen == NumMul(dir.len, Fin(6, 10))
      startOff == NumDiv(NumSub(dir.len, coilLen), Num(2))
      arcLen == NumDiv(coilLen, Num(4))
      bulge == NumMul(arcLen, Fin(8, 10))
      arcStart == Along(Num(x1), Num(y1), startOff, dir.ux, dir.uy, Num(0), dir.nx, dir.ny)
      arc(i) ==
        <<Along(Num(x1), Num(y1),
                NumAdd(startOff, NumMul(Fin(2 * i + 1, 2), arcLen)),
                dir.ux, dir.uy, bulge, dir.nx, dir.ny),
          Along(Num(x1), Num(y1), NumAdd(startOff, NumMul(Num(i + 1), arcLen)),
                dir.ux, dir.uy, Num(0), dir.nx, dir.ny)>>
  IN <<NumPt(Num(x1), Num(y1)), arcStart>>
     \o arc(0) \o arc(1) \o arc(2) \o arc(3)
     \o <<NumPt(Num(x2), Num(y2))>>

\* the points of the polyline: start, zStart, six zigzag points, end
DirectionalResistor(x1, y1, x2, y2) ==
  LET dir == Direction(x1, y1, x2, y2)
      zigLen == NumMul(dir.len, Fin(6, 10))
      startOff == NumDiv(NumSub(dir.len, zigLen), Num(2))
      amp == 10
      segments == 6
      zStart == Along(Num(x1), Num(y1), startOff, dir.ux, dir.uy, Num(0), dir.nx, dir.ny)
      zig(i) ==
        LET t == NumAdd(startOff, NumMul(Fin(i, segments), zigLen))
            sign == IF i % 2 = 1 THEN 1 ELSE 0 - 1
        IN Along(Num(x1), Num(y1), t, dir.ux, dir.uy,
                 IF i < segments THEN Num(sign * amp) ELSE Num(0), dir.nx, dir.ny)
  IN <<NumPt(Num(x1), Num(y1)), zStart>>
     \o [i \in 1..segments |-> zig(i)]
     \o <<NumPt(Num(x2), Num(y2))>>

\* the closing point (x2, y2) of the glyph left out
DirectionalPointsWithoutLeadOut(type, x1, y1, x2, y2) ==
  LET points == CASE type = "capacitor" -> DirectionalCapacitor(x1, y1, x2, y2)
                  [] type = "inductor" -> DirectionalInductor(x1, y1, x2, y2)
                  [] type = "resistor" -> DirectionalResistor(x1, y1, x2, y2)
                  [] OTHER -> <<>>
  IN SubSeq(points, 1, Len(points) - 1)

\* DirectionalGlyph's switch on the type
DirectionalPoints(type, x1, y1, x2, y2) ==
  CASE type = "capacitor" -> DirectionalCapacitor(x1, y1, x2, y2)
    [] type = "inductor" -> DirectionalInductor(x1, y1, x2, y2)
    [] type = "resistor" -> DirectionalResistor(x1, y1, x2, y2)
    [] OTHER -> <<>>

(***************************************************************************)
(* components/FilterForm/FilterForm.tsx.  The text of an input is a        *)
(* sequence of characters; parseInt and parseFloat read it as JavaScript   *)
(* does for texts made of a sign, digits and a decimal point.              *)
(***************************************************************************)
SignLen(text) == IF Len(text) >= 1 /\ text[1] \in {"-", "+"} THEN 1 ELSE 0

SignOf(text) == IF Len(text) >= 1 /\ text[1] = "-" THEN 0 - 1 ELSE 1

\* parseInt(text, 10): the longest run of digits behind the sign, NaN without one
parseInt(text) ==
  LET s == SignLen(text)
      n == DigitRun(text, s + 1)
  IN IF n = 0 THEN NaN
     ELSE Num(SignOf(text) * ParseInt(SubSeq(text, s + 1, s + n)))

\* parseFloat(text): digits, then a decimal point and digits
parseFloat(text) ==
  LET s == SignLen(text)
      n == DigitRun(text, s + 1)
      f == IF Len(text) > s + n /\ text[s + n + 1] = "."
           THEN DigitRun(text, s + n + 2) ELSE 0
      whole == SubSeq(text, s + 1, s + n)
      frac == SubSeq(text, s + n + 2, s + n + 1 + f)
  IN IF n = 0 /\ f = 0 THEN NaN
     ELSE Fin(SignOf(text) * ParseInt(whole \o frac), Pow10(f))

isNaN(a) == a.k = "nan"

\* a < b; every comparison with NaN is false
NumLess(a, b) ==
  CASE a.k = "nan" \/ b.k = "nan" -> FALSE
    [] a.k = "inf" -> a.n < 0 /\ ~(b.k = "inf" /\ b.n < 0)
    [] b.k = "inf" -> b.n > 0
    [] OTHER -> a.n * b.d < b.n * a.d

\* a <= b
NumLeq(a, b) == NumLess(a, b) \/ (~isNaN(a) /\ a = b)

\* Number.isInteger
IsInteger(a) == IsFinite(a) /\ a.d = 1

\* n % 2 !== 0 for an integer n (the remainder has the sign of n)
IsOdd(n) == Abs(n) % 2 # 0

FILTER_TYPES == {"lc_passive", "active_sallen_key"}

ALL_CHARACTERISTICS == {"lpf", "hpf", "bpf", "bef", "apf"}

SALLEN_KEY_CHARACTERISTICS == {"lpf", "hpf"}

APPROXIMATIONS == {"butterworth", "chebyshev1", "chebyshev2", "bessel", "elliptic"}

FREQUENCY_UNITS == {"Hz", "kHz", "MHz"}

needsCutoff(c) == c \in {"lpf", "hpf"}

needsCenter(c) == c \in {"bpf", "bef", "apf"}

needsBandwidth(c) == c \in {"bpf", "bef"}

needsApproximation(c) == c # "apf"

needsRipple(approx) == approx \in {"chebyshev1", "elliptic"}

needsAttenuation(approx) == approx \in {"chebyshev2", "elliptic"}

isSallenKey(ft) == ft = "active_sallen_key"

convertToHz(value, unit) ==
  CASE unit = "Hz" -> value
    [] unit = "kHz" -> NumMul(value, Num(1000))
    [] unit = "MHz" -> NumMul(value, Num(1000000))

\* the state of the form after useState
InitialForm ==
  [filterType |-> "lc_passive", characteristics |-> "lpf",
   approximation |-> "butterworth",
   cutoffFreq |-> <<"1">>, cutoffUnit |-> "kHz",
   centerFreq |-> <<"1">>, centerUnit |-> "kHz",
   bandwidth |-> <<"0", ".", "5">>, bandwidthUnit |-> "kHz",
   order |-> <<"3">>, ripple |-> <<"1">>, attenuation |-> <<"4", "0">>,
   sourceImpedance |-> <<"5", "0">>, loadImpedance |-> <<"5", "0">>,
   errors |-> {}]

availableCharacteristics(f) ==
  IF isSallenKey(f.filterType) THEN SALLEN_KEY_CHARACTERISTICS ELSE ALL_CHARACTERISTICS

\* the order after handleFilterTypeChange('active_sallen_key'): of the two
\* setOrder calls the later one is the one that takes effect
SallenKeyOrder(order) ==
  LET orderNum == parseInt(order)
  IN IF ~isNaN(orderNum) /\ orderNum.n < 2 THEN <<"2">>
     ELSE IF ~isNaN(orderNum) /\ IsOdd(orderNum.n)
          THEN NumberToString(Dec(IF orderNum.n + 1 < 10 THEN orderNum.n + 1 ELSE 10, 0))
          ELSE order

Positive(text) == NumLess(Num(0), parseFloat(text))

\* the tests of validate() on the fields other than the order
validateFields(f) ==
  LET bw == parseFloat(f.bandwidth)
      cf == parseFloat(f.centerFreq)
  IN (IF needsCutoff(f.characteristics) /\ ~Positive(f.cutoffFreq)
      THEN {<<"cutoffFreq", "Cutoff frequency must be positive.">>} ELSE {})
     \cup (IF needsCenter(f.characteristics) /\ ~Positive(f.centerFreq)
           THEN {<<"centerFreq", "Center frequency must be positive.">>} ELSE {})
     \cup (IF needsBandwidth(f.characteristics)
           THEN IF ~Positive(f.bandwidth)
                THEN {<<"bandwidth", "Bandwidth must be positive.">>}
                ELSE IF Positive(f.centerFreq) /\ NumLeq(NumMul(cf, Num(2)), bw)
                     THEN {<<"bandwidth", "Bandwidth must be less than 2x center frequency.">>}
                     ELSE {}
           ELSE {})
     \cup (IF needsApproximation(f.characteristics) /\ needsRipple(f.approximation)
              /\ ~Positive(f.ripple)
           THEN {<<"ripple", "Passband ripple must be positive.">>} ELSE {})
     \cup (IF needsApproximation(f.characteristics) /\ needsAttenuation(f.approximation)
              /\ ~Positive(f.attenuation)
           THEN {<<"attenuation", "Stopband attenuation must be positive.">>} ELSE {})
     \cup (IF ~isSallenKey(f.filterType) /\ ~Positive(f.sourceImpedance)
           THEN {<<"sourceImpedance", "Source impedance must be positive.">>} ELSE {})
     \cup (IF ~isSallenKey(f.filterType) /\ ~Positive(f.loadImpedance)
           THEN {<<"loadImpedance", "Load impedance must be positive.">>} ELSE {})

\* validate() with the order tested as for an LC filter whatever the type
validateOrderRangeOnly(f) ==
  LET orderNum == parseInt(f.order)
  IN (IF isNaN(orderNum) \/ orderNum.n < 1 \/ orderNum.n > 10 \/ ~IsInteger(orderNum)
      THEN {<<"order", "Filter order must be an integer between 1 and 10.">>} ELSE {})
     \cup validateFields(f)

\* validate(): the entries of the ValidationErrors object, an assignment to
\* e.order replacing the one before it
validate(f) ==
  LET orderNum == parseInt(f.order)
      range == isNaN(orderNum) \/ orderNum.n < 1 \/ orderNum.n > 10 \/ ~IsInteger(orderNum)
      odd == isSallenKey(f.filterType) /\ ~isNaN(orderNum) /\ IsOdd(orderNum.n)
      low == isSallenKey(f.filterType) /\ ~isNaN(orderNum) /\ orderNum.n < 2
  IN (IF low THEN {<<"order", "Sallen-Key requires an order of at least 2.">>}
      ELSE IF odd THEN {<<"order", "Sallen-Key requires an even order (2, 4, 6, 8, 10).">>}
      ELSE IF range THEN {<<"order", "Filter order must be an integer between 1 and 10.">>}
      ELSE {})
     \cup validateFields(f)

\* a property that params does not have
Absent == [k |-> "absent", n |-> 0, d |-> 1]

\* the FilterParams object handleSubmit builds
Params(f) ==
  [filterType |-> f.filterType,
   characteristics |-> f.characteristics,
   approximation |-> f.approximation,
   order |-> parseInt(f.order),
   cutoffFrequency |-> IF needsCutoff(f.characteristics)
                       THEN convertToHz(parseFloat(f.cutoffFreq), f.cutoffUnit)
                       ELSE Num(0),
   sourceImpedance |-> IF ~isSallenKey(f.filterType)
                       THEN parseFloat(f.sourceImpedance) ELSE Absent,
   loadImpedance |-> IF ~isSallenKey(f.filterType)
                     THEN parseFloat(f.loadImpedance) ELSE Absent,
   centerFrequency |-> IF needsCenter(f.characteristics)
                       THEN convertToHz(parseFloat(f.centerFreq), f.centerUnit)
                       ELSE Absent,
   bandwidth |-> IF needsBandwidth(f.characteristics)
                 THEN convertToHz(parseFloat(f.bandwidth), f.bandwidthUnit)
                 ELSE Absent,
   passbandRipple |-> IF needsApproximation(f.characteristics) /\ needsRipple(f.approximation)
                      THEN parseFloat(f.ripple) ELSE Absent,
   stopbandAttenuation |-> IF needsApproximation(f.characteristics)
                              /\ needsAttenuation(f.approximation)
                           THEN parseFloat(f.attenuation) ELSE Absent]

(***************************************************************************)
(* CircuitDiagram: the placeholder guard and the dispatch on topology.     *)
(***************************************************************************)
NotRendered ==
  [kind |-> "none", layout |-> "", width |-> 0, height |-> 0, elements |-> <<>>]

Placeholder ==
  [kind |-> "placeholder", layout |-> "", width |-> 0, height |-> 0, elements |-> <<>>]

ShowsPlaceholderUnlessEmpty(comps, topo) ==
  comps.null \/ topo = Null \/ topo = ""

\* !components || components.length === 0 || !topology
ShowsPlaceholder(comps, topo) ==
  comps.null \/ Len(comps.items) = 0 \/ topo = Null \/ topo = ""

\* the layout strategy the ternary chain selects
SelectLayout(topo) ==
  IF topo = "sallen-key" THEN "sallen-key"
  ELSE IF topo = "lattice" THEN "lattice"
  ELSE "ladder"

\* the layout strategies one render invokes, in order
LayoutsInvoked(comps, topo) ==
  IF ShowsPlaceholder(comps, topo) THEN <<>> ELSE <<SelectLayout(topo)>>

CircuitDiagram(comps, topo, rs, rl) ==
  LET called == LayoutsInvoked(comps, topo)
  IN IF called = <<>> THEN Placeholder
     ELSE IF called[1] = "sallen-key" THEN SallenKeyLayout(comps.items)
     ELSE IF called[1] = "lattice" THEN LatticeLayout(comps.items, rs, rl)
     ELSE LadderTLayout(comps.items, rs, rl)

(***************************************************************************)
(* The inputs.  A component is [id, type, position]; its value only        *)
(* reaches the formatted value label.  An input list is built from         *)
(* slots [prefix, type, position]; the id of the i-th component is its     *)
(* prefix, the letter of its type and the digit i, so ids are unique       *)
(* within a list.                                                          *)
(***************************************************************************)
Comp(id, type, position) == [id |-> id, type |-> type, position |-> position]

Slot(prefix, type, position) == [prefix |-> prefix, type |-> type, position |-> position]

TypeLetter(type) ==
  CASE type = "resistor" -> "R"
    [] type = "inductor" -> "L"
    [] type = "capacitor" -> "C"
    [] OTHER -> "U"

FromSlots(slots) ==
  [i \in 1..Len(slots) |->
     Comp(slots[i].prefix \o <<TypeLetter(slots[i].type), Digit(i)>>,
          slots[i].type, slots[i].position)]

Lists(slotSet, n) == {FromSlots(slots) : slots \in SeqsUpTo(slotSet, n)}

Props(items) == [null |-> FALSE, items |-> items]
NullProps == [null |-> TRUE, items |-> <<>>]

Impedances == {NoImpedance, 50}

S1 == <<"S", "1", "_">>
S2 == <<"S", "2", "_">>

LadderSlots ==
  {Slot(<<>>, t, p) : t \in {"resistor", "inductor", "capacitor"}, p \in {"series", "shunt"}}
  \cup {Slot(<<>>, "resistor", "feedback")}

LatticeSlots ==
  {Slot(<<>>, "inductor", "series"), Slot(<<>>, "capacitor", "shunt"),
   Slot(<<>>, "capacitor", "series"), Slot(<<>>, "resistor", "shunt")}

StageSlots ==
  {Slot(pre, k[1], k[2]) :
     pre \in {<<>>, S1, S2},
     k \in {<<"resistor", "series">>, <<"capacitor", "feedback">>,
            <<"capacitor", "shunt">>, <<"opamp", "active">>}}

\* The component lists of the repository's tests (CircuitDiagram.test.tsx).
LADDER_COMPONENTS ==
  <<Comp(<<"L", "1">>, "inductor", "series"), Comp(<<"C", "1">>, "capacitor", "shunt"),
    Comp(<<"L", "2">>, "inductor", "series")>>

LATTICE_COMPONENTS ==
  <<Comp(<<"L", "1">>, "inductor", "series"), Comp(<<"C", "1">>, "capacitor", "shunt")>>

SALLEN_KEY_COMPONENTS ==
  <<Comp(S1 \o <<"R", "1">>, "resistor", "series"),
    Comp(S1 \o <<"R", "2">>, "resistor", "series"),
    Comp(S1 \o <<"C", "1">>, "capacitor", "feedback"),
    Comp(S1 \o <<"C", "2">>, "capacitor", "shunt"),
    Comp(S1 \o <<"U">>, "opamp", "active")>>

\* A well-formed stage tagged by the characters `tag`, and cascades of them.
FullStage(tag) ==
  <<Comp(<<"S">> \o tag \o <<"_", "R", "1">>, "resistor", "series"),
    Comp(<<"S">> \o tag \o <<"_", "R", "2">>, "resistor", "series"),
    Comp(<<"S">> \o tag \o <<"_", "C", "1">>, "capacitor", "feedback"),
    Comp(<<"S">> \o tag \o <<"_", "C", "2">>, "capacitor", "shunt"),
    Comp(<<"S">> \o tag \o <<"_", "U">>, "opamp", "active")>>

\* The high-pass stage: capacitors in series, resistors as feedback and shunt.
HpfStage(tag) ==
  <<Comp(<<"S">> \o tag \o <<"_", "C", "1">>, "capacitor", "series"),
    Comp(<<"S">> \o tag \o <<"_", "C", "2">>, "capacitor", "series"),
    Comp(<<"S">> \o tag \o <<"_", "R", "1">>, "resistor", "feedback"),
    Comp(<<"S">> \o tag \o <<"_", "R", "2">>, "resistor", "shunt"),
    Comp(<<"S">> \o tag \o <<"_", "U">>, "opamp", "active")>>

\* Ids whose tag is not of the plain form S1_ / S2_.
OddIdLists ==
  {<<Comp(<<"S", "0", "_", "R", "1">>, "resistor", "series"),
     Comp(<<"R", "2">>, "resistor", "series")>>,
   <<Comp(<<"S", "_", "R", "1">>, "resistor", "series"),
     Comp(<<"S", "1", "R", "2">>, "resistor", "series"),
     Comp(<<"s", "1", "_", "C", "1">>, "capacitor", "shunt")>>,
   <<Comp(<<"S", "0", "1", "_", "R", "1">>, "resistor", "series"),
     Comp(<<"S", "1", "_", "R", "2">>, "resistor", "series"),
     Comp(<<"S", "1", "0", "_", "C", "1">>, "capacitor", "shunt"),
     Comp(<<"S", "1", "0", "_", "U">>, "opamp", "active")>>}

StageScenarios ==
  {SALLEN_KEY_COMPONENTS,
   FullStage(<<"1">>) \o FullStage(<<"2">>),
   FullStage(<<"1">>) \o FullStage(<<"2">>) \o FullStage(<<"3">>),
   FullStage(<<"2">>) \o FullStage(<<"1">>),
   SubSeq(FullStage(<<"1">>), 1, 4) \o FullStage(<<"2">>),
   <<FullStage(<<"1">>)[1], FullStage(<<"1">>)[5]>> \o FullStage(<<"2">>),
   HpfStage(<<"1">>),
   HpfStage(<<"1">>) \o FullStage(<<"2">>)}
  \cup OddIdLists

LadderInputs == Lists(LadderSlots, MaxLadderLen) \cup {LADDER_COMPONENTS}
LatticeInputs == Lists(LatticeSlots, MaxLatticeLen) \cup {LATTICE_COMPONENTS}
StageInputs == Lists(StageSlots, MaxStageListLen) \cup StageScenarios

Topologies == {"ladder-t", "ladder-pi", "lattice", "sallen-key"}

(***************************************************************************)
(* The state machine: the props are given, Render is one call of           *)
(* CircuitDiagram with them.                                               *)
(***************************************************************************)
\* no form is mounted
NoForm == [filterType |-> "none"]

\* no formatter is called on its own
NoQuantity == [kind |-> "none", value |-> Dec(0, 0)]

\* no glyph generator is called on its own
NoSegment == [mode |-> "none", type |-> "none", x1 |-> 0, y1 |-> 0, x2 |-> 0, y2 |-> 0]

InitOutputs ==
  /\ output = NotRendered
  /\ invoked = <<>>
  /\ stages = <<>>
  /\ segment = NoSegment
  /\ drawn = <<>>
  /\ quantity = NoQuantity
  /\ formatted = <<>>
  /\ form = NoForm
  /\ submitted = <<>>
  /\ events = 0

DispatchSlots ==
  {Slot(<<>>, "inductor", "series"), Slot(<<>>, "capacitor", "shunt"),
   Slot(S1, "resistor", "series"), Slot(S1, "opamp", "active")}

\* every combination of the props, on short lists
Init ==
  /\ components \in {NullProps} \cup {Props(l) : l \in Lists(DispatchSlots, MaxDispatchLen)}
  /\ topology \in Topologies \cup {Null}
  /\ sourceImpedance \in Impedances
  /\ loadImpedance \in Impedances
  /\ InitOutputs

InitLadder ==
  /\ components \in {Props(l) : l \in LadderInputs \ {<<>>}}
  /\ topology = "ladder-t"
  /\ sourceImpedance \in Impedances
  /\ loadImpedance \in Impedances
  /\ InitOutputs

InitLattice ==
  /\ components \in {Props(l) : l \in LatticeInputs \ {<<>>}}
  /\ topology = "lattice"
  /\ sourceImpedance \in Impedances
  /\ loadImpedance \in Impedances
  /\ InitOutputs

InitSallenKey ==
  /\ components \in {Props(l) : l \in StageInputs \ {<<>>}}
  /\ topology = "sallen-key"
  /\ sourceImpedance \in Impedances
  /\ loadImpedance = sourceImpedance
  /\ InitOutputs

Render ==
  /\ output' = CircuitDiagram(components, topology, sourceImpedance, loadImpedance)
  /\ invoked' = LayoutsInvoked(components, topology)
  /\ stages' = IF LayoutsInvoked(components, topology) = <<"sallen-key">>
               THEN parseSallenKeyStages(components.items) ELSE <<>>
  /\ UNCHANGED <<components, topology, sourceImpedance, loadImpedance, segment, drawn,
                 quantity, formatted, form, submitted, events>>

Next == Render

\* The segments a generator is called with: the rails and the diagonals of
\* the lattice (160 x 0, 80 x 60), other directions of whole-number length,
\* and the segment of no length.
SegmentStarts == {0, 40}

SegmentSteps ==
  {d \in {0 - 80, 0, 3, 80, 160} \X {0 - 60, 0, 4, 60} :
     IsSquare(d[1] * d[1] + d[2] * d[2])}

InitGlyph ==
  /\ components = NullProps
  /\ topology = Null
  /\ sourceImpedance = NoImpedance
  /\ loadImpedance = NoImpedance
  /\ output = NotRendered
  /\ invoked = <<>>
  /\ stages = <<>>
  /\ segment \in
       {[mode |-> "directional", type |-> t,
         x1 |-> x, y1 |-> y, x2 |-> x + d[1], y2 |-> y + d[2]] :
          t \in {"capacitor", "inductor", "resistor"},
          x \in SegmentStarts, y \in SegmentStarts, d \in SegmentSteps}
       \cup {[mode |-> m, type |-> t, x1 |-> x, y1 |-> y, x2 |-> 0, y2 |-> 0] :
               m \in {"series", "shunt"}, t \in {"capacitor", "inductor", "resistor"},
               x \in SegmentStarts, y \in SegmentStarts}
  /\ drawn = <<>>
  /\ quantity = NoQuantity
  /\ formatted = <<>>
  /\ form = NoForm
  /\ submitted = <<>>
  /\ events = 0

\* the points of a fixed glyph as numbers
AsNumPts(pts) == [m \in 1..Len(pts) |-> NumPt(Num(X(pts[m])), Num(Y(pts[m])))]

\* one call of DirectionalGlyph on the segment (x1,y1) -> (x2,y2), of
\* SeriesGlyph at x = x1, y = y1, or of ShuntGlyph at centerX = x1, topY = y1
DrawGlyph ==
  /\ drawn = <<>>
  /\ drawn' =
       CASE segment.mode = "directional" ->
              DirectionalPoints(segment.type, segment.x1, segment.y1,
                                segment.x2, segment.y2)
         [] segment.mode = "series" ->
              AsNumPts(SeriesGlyph("series", NoComp, segment.type,
                                   segment.x1, segment.y1)[1].pts)
         [] segment.mode = "shunt" ->
              AsNumPts(ShuntGlyph("shunt", NoComp, segment.type,
                                  segment.x1, segment.y1)[1].pts)
  /\ UNCHANGED <<components, topology, sourceImpedance, loadImpedance, output, invoked,
                 stages, segment, quantity, formatted,
                 form, submitted, events>>

NextGlyph == DrawGlyph

SpecGlyph == InitGlyph /\ [][NextGlyph]_vars

\* The values a formatter is given: a few digit strings, among them ones
\* that round up to the next power of ten, at every decimal exponent of the
\* formatter's prefixes; zero; a negative value.
Mantissas == {1, 47, 999, 1000, 4700, 9994, 9996, 0 - 47}

Exponents(kind) ==
  CASE kind = "capacitance" -> (0 - 16)..(0 - 3)
    [] kind = "inductance" -> (0 - 10)..1
    [] kind = "resistance" -> (0 - 4)..6

Quantities ==
  {[kind |-> k, value |-> Dec(m, x)] :
     k \in {"capacitance"}, m \in Mantissas, x \in Exponents("capacitance")}
  \cup {[kind |-> k, value |-> Dec(m, x)] :
          k \in {"inductance"}, m \in Mantissas, x \in Exponents("inductance")}
  \cup {[kind |-> k, value |-> Dec(m, x)] :
          k \in {"resistance"}, m \in Mantissas, x \in Exponents("resistance")}
  \cup {[kind |-> k, value |-> Dec(0, 0)] :
          k \in {"capacitance", "inductance", "resistance"}}

InitUnits ==
  /\ components = NullProps
  /\ topology = Null
  /\ sourceImpedance = NoImpedance
  /\ loadImpedance = NoImpedance
  /\ output = NotRendered
  /\ invoked = <<>>
  /\ stages = <<>>
  /\ segment = NoSegment
  /\ drawn = <<>>
  /\ quantity \in Quantities
  /\ formatted = <<>>
  /\ form = NoForm
  /\ submitted = <<>>
  /\ events = 0

\* one call of formatCapacitance, formatInductance or formatResistance
Format ==
  /\ formatted = <<>>
  /\ formatted' = CASE quantity.kind = "capacitance" -> formatCapacitance(quantity.value)
                    [] quantity.kind = "inductance" -> formatInductance(quantity.value)
                    [] quantity.kind = "resistance" -> formatResistance(quantity.value)
  /\ UNCHANGED <<components, topology, sourceImpedance, loadImpedance, output, invoked,
                 stages, segment, drawn, quantity, form, submitted, events>>

NextUnits == Format

SpecUnits == InitUnits /\ [][NextUnits]_vars

\* the number of events the form is given
MaxFormEvents == 3

\* the texts typed into the order input and into the other number inputs
OrderTexts ==
  {<<>>, <<"0">>, <<"1">>, <<"2">>, <<"3">>, <<"1", "0">>, <<"1", "1">>, <<"-", "1">>,
   <<"2", ".", "5">>}

NumberTexts == {<<>>, <<"0">>, <<"1">>, <<"0", ".", "5">>, <<"-", "1">>}

InitFilterForm ==
  /\ components = NullProps
  /\ topology = Null
  /\ sourceImpedance = NoImpedance
  /\ loadImpedance = NoImpedance
  /\ output = NotRendered
  /\ invoked = <<>>
  /\ stages = <<>>
  /\ segment = NoSegment
  /\ drawn = <<>>
  /\ quantity = NoQuantity
  /\ formatted = <<>>
  /\ form = InitialForm
  /\ submitted = <<>>
  /\ events = 0

FormEvent ==
  /\ events < MaxFormEvents
  /\ events' = events + 1
  /\ UNCHANGED <<components, topology, sourceImpedance, loadImpedance, output, invoked,
                 stages, segment, drawn, quantity, formatted>>

handleFilterTypeChange ==
  /\ FormEvent
  /\ \E newFilterType \in FILTER_TYPES :
       form' = IF newFilterType = "active_sallen_key"
               THEN [form EXCEPT
                       !.filterType = newFilterType,
                       !.characteristics =
                          IF form.characteristics \notin SALLEN_KEY_CHARACTERISTICS
                          THEN "lpf" ELSE form.characteristics,
                       !.order = SallenKeyOrder(form.order)]
               ELSE [form EXCEPT !.filterType = newFilterType]
  /\ UNCHANGED submitted

setCharacteristics ==
  /\ FormEvent
  /\ \E c \in availableCharacteristics(form) : form' = [form EXCEPT !.characteristics = c]
  /\ UNCHANGED submitted

setApproximation ==
  /\ FormEvent
  /\ \E a \in APPROXIMATIONS : form' = [form EXCEPT !.approximation = a]
  /\ UNCHANGED submitted

setOrder ==
  /\ FormEvent
  /\ \E text \in OrderTexts : form' = [form EXCEPT !.order = text]
  /\ UNCHANGED submitted

\* setCutoffFreq, setCenterFreq, setBandwidth, setRipple, setAttenuation,
\* setSourceImpedance, setLoadImpedance
setNumber ==
  /\ FormEvent
  /\ \E field \in {"cutoffFreq", "centerFreq", "bandwidth", "ripple", "attenuation",
                   "sourceImpedance", "loadImpedance"}, text \in NumberTexts :
       form' = [form EXCEPT ![field] = text]
  /\ UNCHANGED submitted

\* setCutoffUnit, setCenterUnit, setBandwidthUnit
setUnit ==
  /\ FormEvent
  /\ \E field \in {"cutoffUnit", "centerUnit", "bandwidthUnit"}, unit \in FREQUENCY_UNITS :
       form' = [form EXCEPT ![field] = unit]
  /\ UNCHANGED submitted

handleSubmit ==
  /\ FormEvent
  /\ LET validationErrors == validate(form)
     IN /\ form' = [form EXCEPT !.errors = validationErrors]
        /\ submitted' = IF validationErrors # {} THEN submitted
                        ELSE Append(submitted, Params(form))

NextFilterForm ==
  \/ handleFilterTypeChange
  \/ setCharacteristics
  \/ setApproximation
  \/ setOrder
  \/ setNumber
  \/ setUnit
  \/ handleSubmit

SpecFilterForm == InitFilterForm /\ [][NextFilterForm]_vars

Spec == Init /\ [][Next]_vars
SpecLadder == InitLadder /\ [][Next]_vars
SpecLattice == InitLattice /\ [][Next]_vars
SpecSallenKey == InitSallenKey /\ [][Next]_vars

Rendered == output # NotRendered

(***************************************************************************)
(* Reading a rendered scene.                                               *)
(***************************************************************************)
Items == components.items

Elements == output.elements

ElementsWhere(P(_)) == SelectSeq(Elements, P)

Glyphs == ElementsWhere(LAMBDA e : e.kind = "glyph")

IdLabels == ElementsWhere(LAMBDA e : e.kind = "text" /\ e.part = "id")

\* the elements of one part emitted for one component
PartOf(part, comp) == ElementsWhere(LAMBDA e : e.part = part /\ e.comp = comp)

FirstPt(e) == e.pts[1]
LastPt(e) == e.pts[Len(e.pts)]

(***************************************************************************)
(* C2: CircuitDiagram invokes no layout and returns the placeholder when   *)
(* components is null or empty or topology is null; otherwise it invokes   *)
(* exactly one layout, chosen by topology alone: 'sallen-key' the          *)
(* Sallen-Key layout, 'lattice' the lattice layout, any other topology     *)
(* the ladder layout.                                                      *)
(***************************************************************************)
C2_Dispatch ==
  Rendered =>
    IF components.null \/ Len(Items) = 0 \/ topology = Null
    THEN invoked = <<>> /\ output = Placeholder
    ELSE /\ Len(invoked) = 1
         /\ invoked[1] = (CASE topology = "sallen-key" -> "sallen-key"
                            [] topology = "lattice" -> "lattice"
                            [] OTHER -> "ladder")
         /\ output.kind = "svg"
         /\ output.layout = invoked[1]

C2_Witness ==
  /\ Rendered
  /\ topology = "ladder-pi"
  /\ Len(Items) = 2
  /\ invoked = <<"ladder">>
  /\ output.layout = "ladder"

(***************************************************************************)
(* C3: ladder placement is order-preserving.  Every input component is     *)
(* placed exactly once, as a series item when its role is series and as a  *)
(* shunt item otherwise; the placed items are in input order; the anchor   *)
(* (left edge of a series item, centre of a shunt item) strictly increases *)
(* with the index and the slots of consecutive items do not overlap.       *)
(***************************************************************************)
Anchor(g) == X(FirstPt(g))

SlotLeft(g) == IF g.part = "series" THEN Anchor(g) ELSE Anchor(g) - SHUNT_SECTION_W \div 2

SlotRight(g) ==
  IF g.part = "series" THEN Anchor(g) + SERIES_W ELSE Anchor(g) + SHUNT_SECTION_W \div 2

C3_LadderOrderPreserving ==
  (Rendered /\ output.layout = "ladder") =>
    /\ Len(Glyphs) = Len(Items)
    /\ Len(IdLabels) = Len(Items)
    /\ \A i \in 1..Len(Items) :
         /\ Glyphs[i].comp = Items[i]
         /\ Glyphs[i].gtype = Items[i].type
         /\ Glyphs[i].part = (IF Items[i].position = "series" THEN "series" ELSE "shunt")
         /\ IdLabels[i].comp = Items[i]
         /\ IdLabels[i].text = Items[i].id
    /\ \A i \in 1..(Len(Items) - 1) :
         /\ Anchor(Glyphs[i]) < Anchor(Glyphs[i + 1])
         /\ SlotRight(Glyphs[i]) <= SlotLeft(Glyphs[i + 1])

C3_Witness ==
  /\ Rendered
  /\ output.layout = "ladder"
  /\ Len(Items) = 3
  /\ Items[1].position = "shunt"
  /\ Items[2].position = "series"
  /\ Items[3].position = "feedback"
  /\ Len(Glyphs) = 3
  /\ Anchor(Glyphs[1]) < Anchor(Glyphs[2])

(***************************************************************************)
(* C4: in a ladder both terminals of every series glyph lie on the main    *)
(* line y = MAIN_Y + WIRE_CENTER_Y, and every shunt component hangs from   *)
(* the main line down to the ground rail y = GND_Y as one connected chain: *)
(* tap dot, top wire, glyph, bottom wire, ground symbol, each starting     *)
(* where the previous one ends; the glyph is 40 high for a capacitor and   *)
(* 60 high for a resistor or an inductor.                                  *)
(***************************************************************************)
SeriesOnMainLine(g) ==
  /\ Y(FirstPt(g)) = MAIN_Y + WIRE_CENTER_Y
  /\ Y(LastPt(g)) = MAIN_Y + WIRE_CENTER_Y

ShuntChain(g) ==
  LET c == g.comp
      dot == PartOf("dot", c)
      top == PartOf("shunt-wire-top", c)
      bot == PartOf("shunt-wire-bot", c)
      gnd == PartOf("gnd", c)
  IN /\ Len(dot) = 1 /\ Len(top) = 1 /\ Len(bot) = 1 /\ Len(gnd) = 1
     /\ Y(FirstPt(dot[1])) = MAIN_Y + WIRE_CENTER_Y
     /\ FirstPt(top[1]) = FirstPt(dot[1])
     /\ FirstPt(g) = LastPt(top[1])
     /\ FirstPt(bot[1]) = LastPt(g)
     /\ LastPt(bot[1]) = FirstPt(gnd[1])
     /\ Y(FirstPt(gnd[1])) = GND_Y
     /\ Y(LastPt(g)) - Y(FirstPt(g)) = (IF g.gtype = "capacitor" THEN 40 ELSE 60)
     /\ Y(FirstPt(bot[1])) <= Y(LastPt(bot[1]))

C4_LadderMainLineAndGroundRail ==
  (Rendered /\ output.layout = "ladder") =>
    \A i \in 1..Len(Glyphs) :
      IF Glyphs[i].part = "series" THEN SeriesOnMainLine(Glyphs[i])
      ELSE ShuntChain(Glyphs[i])

C4_Witness ==
  /\ Rendered
  /\ output.layout = "ladder"
  /\ Len(Glyphs) = 3
  /\ Glyphs[1].part = "shunt" /\ Glyphs[1].gtype = "capacitor"
  /\ Glyphs[2].part = "series"
  /\ Glyphs[3].part = "shunt" /\ Glyphs[3].gtype = "inductor"
  /\ ShuntChain(Glyphs[1]) /\ ShuntChain(Glyphs[3])

(***************************************************************************)
(* Reading the stages of a Sallen-Key render.  The components of a list    *)
(* are distinct, so a component is identified by its record.               *)
(***************************************************************************)
Tag(i) == StageNumOf(Items[i].id)

Tagged(i) == StagePrefixLen(Items[i].id) > 0

OpampAt(i) == Items[i].type = "opamp"

\* the members of a stage in stage order: its passives, then its op-amp
Members(stage) ==
  stage.passiveComps \o (IF stage.opamp = NoComp THEN <<>> ELSE <<stage.opamp>>)

\* the number of components in the first s stages
RECURSIVE MembersThrough(_)
MembersThrough(s) ==
  IF s = 0 THEN 0 ELSE MembersThrough(s - 1) + Len(Members(stages[s]))

StageEndsAt(k) == \E s \in 1..Len(stages) : MembersThrough(s) = k

InStage(c, s) == \E m \in 1..Len(Members(stages[s])) : Members(stages[s])[m] = c

SameStage(i, j) == \E s \in 1..Len(stages) : InStage(Items[i], s) /\ InStage(Items[j], s)

\* the positions of the op-amps in the input, in order
OpampPositions ==
  SelectSeq([i \in 1..Len(Items) |-> i], LAMBDA i : OpampAt(i))

\* the input is a sequence of groups, each made of passives tagged S<i>_
\* followed by the op-amp tagged S<i>_
WellFormedGroups ==
  /\ Len(Items) > 0
  /\ OpampAt(Len(Items))
  /\ \A i \in 1..Len(Items) : Tagged(i)
  /\ \A i \in 1..Len(Items) - 1 : ~OpampAt(i) => Tag(i) = Tag(i + 1)

(***************************************************************************)
(* C5: parseSallenKeyStages scans the list once in order: the stages,      *)
(* laid end to end, are the input list; a stage ends after component k     *)
(* exactly when component k is an op-amp (which is then the last member    *)
(* of the stage it closes) or the stage number of component k + 1 differs  *)
(* from that of component k.  An input made of k well-formed groups        *)
(* yields exactly k stages, stage s holding exactly the passives and the   *)
(* op-amp of group s; the five-component stage-1 example yields one stage. *)
(***************************************************************************)
C5_StageGrouping ==
  (Rendered /\ invoked = <<"sallen-key">>) =>
    /\ Concat([s \in 1..Len(stages) |-> Members(stages[s])]) = Items
    /\ \A s \in 1..Len(stages) : Len(Members(stages[s])) > 0
    /\ \A k \in 1..Len(Items) - 1 :
         StageEndsAt(k) <=> (OpampAt(k) \/ Tag(k) # Tag(k + 1))
    /\ \A s \in 1..Len(stages) :
         stages[s].opamp # NoComp =>
           /\ stages[s].opamp = Items[MembersThrough(s)]
           /\ stages[s].opamp.type = "opamp"
    /\ WellFormedGroups =>
         /\ Len(stages) = Len(OpampPositions)
         /\ \A s \in 1..Len(stages) :
              LET from == IF s = 1 THEN 1 ELSE OpampPositions[s - 1] + 1
                  to == OpampPositions[s]
              IN /\ stages[s].opamp = Items[to]
                 /\ stages[s].passiveComps = SubSeq(Items, from, to - 1)
                 /\ stages[s].stageNum = Tag(to)
                 /\ \A i \in from..to : Tag(i) = Tag(to)
    /\ Items = SALLEN_KEY_COMPONENTS => Len(stages) = 1

\* a cascade of two well-formed groups has been parsed into two stages
C5_Witness ==
  /\ Rendered
  /\ Items = FullStage(<<"1">>) \o FullStage(<<"2">>)
  /\ WellFormedGroups
  /\ Len(stages) = 2
  /\ stages[2].opamp = Items[10]

(***************************************************************************)
(* C6 as stated: two components are in the same stage if and only if       *)
(* their ids carry the same numeric stage tag, whatever their role, type   *)
(* and position in the list.                                               *)
(***************************************************************************)
C6_MembershipByTagAlone ==
  (Rendered /\ invoked = <<"sallen-key">>) =>
    \A i, j \in 1..Len(Items) :
      (Tagged(i) /\ Tagged(j)) => (SameStage(i, j) <=> Tag(i) = Tag(j))

(***************************************************************************)
(* C6 amended: two components i < j of the input are in the same stage if  *)
(* and only if every component from i to j has the same stage number (0    *)
(* for an id without a tag) and none of the components i .. j - 1 is an    *)
(* op-amp.  The role of a component plays no part; its type (op-amp or     *)
(* not) and its place in the list do.                                      *)
(***************************************************************************)
C6_MembershipByContiguousTag ==
  (Rendered /\ invoked = <<"sallen-key">>) =>
    /\ \A i \in 1..Len(Items) : SameStage(i, i)
    /\ \A i, j \in 1..Len(Items) :
         i < j =>
           (SameStage(i, j) <=>
              /\ \A k \in i..j : Tag(k) = Tag(i)
              /\ \A k \in i..(j - 1) : ~OpampAt(k))

\* two components with the same tag are in one stage, and two others with
\* the same tag are not, an op-amp or another tag lying between them
C6_Witness ==
  /\ Rendered
  /\ \E i, j \in 1..Len(Items) :
       i < j /\ Tagged(i) /\ Tagged(j) /\ Tag(i) = Tag(j) /\ SameStage(i, j)
       /\ Items[i].position # Items[j].position
  /\ \E i, j \in 1..Len(Items) :
       i < j /\ Tagged(i) /\ Tagged(j) /\ Tag(i) = Tag(j) /\ ~SameStage(i, j)

(***************************************************************************)
(* Labels of a Sallen-Key render.                                          *)
(***************************************************************************)
\* the id labels emitted for component i, carrying its id without the prefix
OwnIdLabels(i) ==
  SelectSeq(IdLabels, LAMBDA e : e.comp = Items[i]
                                 /\ e.text = StripStagePrefix(Items[i].id))

\* the number of components before i, in the stage of i, with the role of i
EarlierSameRole(i) ==
  Cardinality({h \in 1..(i - 1) :
                 /\ SameStage(h, i)
                 /\ ~OpampAt(h)
                 /\ Items[h].position = Items[i].position})

\* the components the stage rendering draws: the op-amp, the first two
\* series passives, the first feedback passive and the first shunt passive
Drawn(i) ==
  \/ OpampAt(i)
  \/ Items[i].position = "series" /\ EarlierSameRole(i) < 2
  \/ Items[i].position \in {"feedback", "shunt"} /\ EarlierSameRole(i) = 0

(***************************************************************************)
(* C7 as stated: whatever the number of components of each role inside a   *)
(* stage, every input component has exactly one label carrying its id      *)
(* with the stage prefix stripped.                                         *)
(***************************************************************************)
C7_EveryComponentLabelledOnce ==
  (Rendered /\ invoked = <<"sallen-key">>) =>
    \A i \in 1..Len(Items) : Len(OwnIdLabels(i)) = 1

(***************************************************************************)
(* C7 amended: in every stage the op-amp, the first two series passives,   *)
(* the first feedback passive and the first shunt passive each have        *)
(* exactly one label carrying the id with the stage prefix stripped; any   *)
(* further passive of the stage has none; no component is labelled twice   *)
(* and there is no other id label.  So when every stage holds at most two  *)
(* series, one feedback and one shunt passive, every input component has   *)
(* exactly one label.                                                      *)
(***************************************************************************)
C7_DrawnComponentsLabelledOnce ==
  (Rendered /\ invoked = <<"sallen-key">>) =>
    /\ \A i \in 1..Len(Items) :
         Len(OwnIdLabels(i)) = (IF Drawn(i) THEN 1 ELSE 0)
    /\ Len(IdLabels) = Cardinality({i \in 1..Len(Items) : Drawn(i)})
    /\ (\A i \in 1..Len(Items) : Drawn(i)) =>
         /\ Len(IdLabels) = Len(Items)
         /\ \A i \in 1..Len(Items) : Len(OwnIdLabels(i)) = 1

\* a two-stage cascade where all ten components are labelled
C7_Witness ==
  /\ Rendered
  /\ Items = FullStage(<<"1">>) \o FullStage(<<"2">>)
  /\ \A i \in 1..Len(Items) : Drawn(i) /\ Len(OwnIdLabels(i)) = 1
  /\ Len(IdLabels) = 10

(***************************************************************************)
(* Reading the sections of a lattice render: the k-th element of a part    *)
(* belongs to the k-th section, a section being four nodes, the glyphs of  *)
(* the two rails (za-top, za-bot) and of the two diagonals (zb1, zb2).     *)
(***************************************************************************)
OfPart(part) == ElementsWhere(LAMBDA e : e.part = part)

SectionsDrawn == Len(OfPart("za-top"))

\* the component drawn on the rails / on the diagonals of section k (1-based)
RailComp(k) == OfPart("za-top")[k].comp

DiagonalComp(k) == OfPart("zb1")[k].comp

\* every section has its four nodes and its four glyphs
SectionsComplete ==
  /\ Len(OfPart("node")) = 4 * SectionsDrawn
  /\ \A part \in {"za-bot", "zb1", "zb2"} : Len(OfPart(part)) = SectionsDrawn
  /\ \A k \in 1..SectionsDrawn :
       /\ OfPart("za-bot")[k].comp = RailComp(k)
       /\ OfPart("zb2")[k].comp = DiagonalComp(k)
       /\ \A part \in {"za-top", "za-bot"} : OfPart(part)[k].gtype = RailComp(k).type
       /\ \A part \in {"zb1", "zb2"} : OfPart(part)[k].gtype = DiagonalComp(k).type

\* component i of the input appears nowhere in the scene
Unused(i) ==
  \A m \in 1..Len(Elements) :
    /\ Elements[m].comp # Items[i]
    /\ Elements[m].kind = "text" => Elements[m].text # Items[i].id

(***************************************************************************)
(* C8: for an input of n components LatticeLayout emits floor(n/2)         *)
(* sections, the k-th (k = 1, 2, ...) built from the input components      *)
(* 2k - 1 and 2k in input order; when n is odd the last component is used  *)
(* in no section, glyph or label; a 5-component input yields 2 sections.   *)
(***************************************************************************)
C8_LatticeSectionCount ==
  (Rendered /\ invoked = <<"lattice">>) =>
    /\ SectionsDrawn = Len(Items) \div 2
    /\ Len(OfPart("zb1")) = Len(Items) \div 2
    /\ Len(OfPart("node")) = 4 * (Len(Items) \div 2)
    /\ \A k \in 1..SectionsDrawn :
         /\ RailComp(k) = Items[2 * k - 1]
         /\ DiagonalComp(k) = Items[2 * k]
    /\ Len(Items) % 2 = 1 => Unused(Len(Items))
    /\ \A i \in 1..(2 * (Len(Items) \div 2)) : ~Unused(i)
    /\ Len(Items) = 5 => SectionsDrawn = 2

\* five components rendered as two sections, the fifth unused
C8_Witness ==
  /\ Rendered
  /\ Len(Items) = 5
  /\ SectionsDrawn = 2
  /\ Unused(5)
  /\ ~Unused(4)

(***************************************************************************)
(* C9 as stated: in every section the component drawn on the two rails     *)
(* has role series and the component drawn on the two diagonals has role   *)
(* shunt; no section comes from a pair that is not (series, shunt), and    *)
(* no partial section is emitted.                                          *)
(***************************************************************************)
C9_SectionsFromSeriesShuntPairs ==
  (Rendered /\ invoked = <<"lattice">>) =>
    /\ SectionsComplete
    /\ \A k \in 1..SectionsDrawn :
         /\ RailComp(k).position = "series"
         /\ DiagonalComp(k).position = "shunt"

(***************************************************************************)
(* C9 amended: every section is formed from a consecutive pair of the      *)
(* input taken by place alone: the first member of the pair is drawn on    *)
(* the two rails and the second on the two diagonals, whatever their       *)
(* roles, so the rail component has role series and the diagonal           *)
(* component role shunt exactly when the pair is (series, shunt) in the    *)
(* input; no partial section is emitted.                                   *)
(***************************************************************************)
C9_SectionsFromConsecutivePairs ==
  (Rendered /\ invoked = <<"lattice">>) =>
    /\ SectionsComplete
    /\ SectionsDrawn = Len(Items) \div 2
    /\ \A k \in 1..SectionsDrawn :
         /\ RailComp(k) = Items[2 * k - 1]
         /\ DiagonalComp(k) = Items[2 * k]
         /\ (RailComp(k).position = "series" /\ DiagonalComp(k).position = "shunt")
              <=> (Items[2 * k - 1].position = "series" /\ Items[2 * k].position = "shunt")

\* a complete section drawn from a (shunt, series) pair next to one drawn
\* from a (series, shunt) pair
C9_Witness ==
  /\ Rendered
  /\ SectionsDrawn = 2
  /\ SectionsComplete
  /\ RailComp(1).position = "shunt" /\ DiagonalComp(1).position = "series"
  /\ RailComp(2).position = "series" /\ DiagonalComp(2).position = "shunt"

(***************************************************************************)
(* Labels of a lattice render.                                             *)
(***************************************************************************)
\* the id labels whose text is the id of component c
LabelsNaming(c) == SelectSeq(IdLabels, LAMBDA e : e.text = c.id)

MidX(g) == (X(FirstPt(g)) + X(LastPt(g))) \div 2

MidY(g) == (Y(FirstPt(g)) + Y(LastPt(g))) \div 2

\* label e stands above (dy < 0) or below (dy > 0) the middle of rail glyph g
AtRail(e, g, above) ==
  /\ X(FirstPt(e)) = MidX(g)
  /\ IF above THEN Y(FirstPt(e)) < MidY(g) /\ Y(FirstPt(e)) >= MidY(g) - 20
              ELSE Y(FirstPt(e)) > MidY(g) /\ Y(FirstPt(e)) <= MidY(g) + 20

\* label e stands beside the middle of diagonal glyph g, on its outer side
BesideDiagonal(e, g, left) ==
  /\ Y(FirstPt(e)) = MidY(g) - 4
  /\ IF left THEN X(FirstPt(e)) = MidX(g) - 16 ELSE X(FirstPt(e)) = MidX(g) + 16

(***************************************************************************)
(* C10: in the output for s sections the id of each section's rail         *)
(* component is the text of exactly two labels, one above the top rail     *)
(* and one below the bottom rail, and the id of each section's diagonal    *)
(* component is the text of exactly two labels, one beside the glyph of    *)
(* each diagonal; exactly 4 * s id labels are emitted.                     *)
(***************************************************************************)
C10_LatticeLabelLaw ==
  (Rendered /\ invoked = <<"lattice">>) =>
    /\ Len(IdLabels) = 4 * SectionsDrawn
    /\ \A k \in 1..SectionsDrawn :
         LET rail == LabelsNaming(RailComp(k))
             diag == LabelsNaming(DiagonalComp(k))
         IN /\ Len(rail) = 2
            /\ \A m \in 1..2 : rail[m].comp = RailComp(k)
            /\ AtRail(rail[1], OfPart("za-top")[k], TRUE)
            /\ Y(FirstPt(rail[1])) < latticeTopY
            /\ AtRail(rail[2], OfPart("za-bot")[k], FALSE)
            /\ Y(FirstPt(rail[2])) > latticeBotY
            /\ Len(diag) = 2
            /\ \A m \in 1..2 : diag[m].comp = DiagonalComp(k)
            /\ BesideDiagonal(diag[1], OfPart("zb1")[k], TRUE)
            /\ BesideDiagonal(diag[2], OfPart("zb2")[k], FALSE)

\* two sections rendered with their eight id labels
C10_Witness ==
  /\ Rendered
  /\ SectionsDrawn = 2
  /\ Len(IdLabels) = 8
  /\ Len(LabelsNaming(RailComp(2))) = 2
  /\ Len(LabelsNaming(DiagonalComp(2))) = 2

(***************************************************************************)
(* Labels of a ladder render.                                              *)
(***************************************************************************)
Texts == ElementsWhere(LAMBDA e : e.kind = "text")

\* the text elements whose text is t
TextsReading(t) == SelectSeq(Texts, LAMBDA e : e.text = t)

\* the places in the scene of the elements of one part of one component
PlacesOf(part, comp) ==
  {m \in 1..Len(Elements) : Elements[m].part = part /\ Elements[m].comp = comp}

\* the smallest and the largest y of the points of a glyph
TopOf(g) == CHOOSE y \in {Y(g.pts[k]) : k \in 1..Len(g.pts)} :
              \A k \in 1..Len(g.pts) : y <= Y(g.pts[k])

BottomOf(g) == CHOOSE y \in {Y(g.pts[k]) : k \in 1..Len(g.pts)} :
                 \A k \in 1..Len(g.pts) : y >= Y(g.pts[k])

\* component c has one two-line label: its id, then its formatted value
\* right under it, and no other text
TwoLineLabel(c) ==
  /\ Cardinality(PlacesOf("id", c)) = 1
  /\ Cardinality(PlacesOf("value", c)) = 1
  /\ Len(SelectSeq(Texts, LAMBDA e : e.comp = c)) = 2
  /\ LET i == CHOOSE m \in PlacesOf("id", c) : TRUE
         v == CHOOSE m \in PlacesOf("value", c) : TRUE
     IN /\ v = i + 1
        /\ Elements[i].kind = "text" /\ Elements[v].kind = "text"
        /\ Elements[i].text = c.id
        /\ Elements[v].text = formatComponentValue(c)
        /\ X(FirstPt(Elements[v])) = X(FirstPt(Elements[i]))
        /\ Y(FirstPt(Elements[v])) = Y(FirstPt(Elements[i])) + 12

\* both lines of the label of a series glyph stand over its middle, above it
LabelAbove(g) ==
  \A e \in {Texts[m] : m \in 1..Len(Texts)} :
    e.comp = g.comp =>
      /\ X(FirstPt(e)) = (X(FirstPt(g)) + X(LastPt(g))) \div 2
      /\ Y(FirstPt(e)) <= TopOf(g)

\* both lines of the label of a shunt glyph stand to its right, at its height
LabelBeside(g) ==
  \A e \in {Texts[m] : m \in 1..Len(Texts)} :
    e.comp = g.comp =>
      /\ X(FirstPt(e)) = X(FirstPt(g)) + 18
      /\ Y(FirstPt(e)) > TopOf(g)
      /\ Y(FirstPt(e)) < BottomOf(g)

StageLabels == OfPart("stage-label")

\* id is 'S', n digits and '_' followed by rest
HasPrefixOfDigits(id, n, rest) ==
  /\ Len(id) >= n + 2
  /\ id[1] = "S"
  /\ \A k \in 2..(n + 1) : id[k] \in Digits
  /\ id[n + 2] = "_"
  /\ rest = SubSeq(id, n + 3, Len(id))

\* t is id with its leading 'S<digits>_' removed (id itself when it has none)
IsIdWithoutPrefix(t, id) ==
  IF \E n \in 1..Len(id) : \E rest \in {SubSeq(id, n + 3, Len(id))} :
       HasPrefixOfDigits(id, n, rest)
  THEN \E n \in 1..Len(id) : HasPrefixOfDigits(id, n, t)
  ELSE t = id

(***************************************************************************)
(* C12: every rendered Sallen-Key stage shows exactly one header label     *)
(* 'Stage k', k being the stage number carried by the id of every          *)
(* component of the stage (the passives and the op-amp of a stage share    *)
(* it; 0 stands for an id without a tag), and every component label shows  *)
(* the component's id with its leading 'S<digits>_' removed.               *)
(***************************************************************************)
C12_StageHeaderAndStrippedLabels ==
  (Rendered /\ invoked = <<"sallen-key">>) =>
    /\ Len(StageLabels) = Len(stages)
    /\ \A s \in 1..Len(stages) :
         /\ StageLabels[s].kind = "text"
         /\ X(FirstPt(StageLabels[s]))
              = skMarginL + (s - 1) * (stageW + stageGap) + stageW \div 2
         /\ \A i \in 1..Len(Items) :
              InStage(Items[i], s) =>
                StageLabels[s].text = <<"Stage ">> \o Decimal(Tag(i))
    /\ \A m \in 1..Len(IdLabels) :
         /\ \E i \in 1..Len(Items) : IdLabels[m].comp = Items[i]
         /\ IsIdWithoutPrefix(IdLabels[m].text, IdLabels[m].comp.id)

\* a two-stage cascade with the headers 'Stage 1' and 'Stage 2' and the
\* label 'R1' for S1_R1
C12_Witness ==
  /\ Rendered
  /\ Items = FullStage(<<"1">>) \o FullStage(<<"2">>)
  /\ Len(StageLabels) = 2
  /\ StageLabels[1].text = <<"Stage ", "1">>
  /\ StageLabels[2].text = <<"Stage ", "2">>
  /\ \E m \in 1..Len(IdLabels) :
       IdLabels[m].comp = Items[1] /\ IdLabels[m].text = <<"R", "1">>

(***************************************************************************)
(* Ports and connectors of a Sallen-Key render.                            *)
(***************************************************************************)
InputWires == OfPart("input-wire")

OutputWires == OfPart("output-wire")

InterStage == OfPart("inter-stage")

\* the texts and parts by which the ladder and lattice layouts mark the
\* source and the load
ImpedanceMarkerParts ==
  {"port-name", "port-value", "rs", "rs-gnd", "rl", "rl-gnd", "wire-to-rl",
   "source", "load", "polarity"}

ImpedanceMarkerTexts ==
  {<<"Rs">>, <<"Rl">>} \cup {formatResistance(Dec(v, 0)) : v \in Impedances \ {NoImpedance}}

(***************************************************************************)
(* C13: a Sallen-Key diagram of n >= 1 stages has the label 'Vin' exactly  *)
(* once, before the input wire of the first stage, and the label 'Vout'    *)
(* exactly once, after the output wire of the last stage; it has exactly   *)
(* n - 1 inter-stage connectors, the i-th running from the end of the      *)
(* output wire of stage i to the start of the input wire of stage i + 1;   *)
(* it has no source or load impedance marker.                              *)
(***************************************************************************)
C13_PortsAndConnectors ==
  (Rendered /\ invoked = <<"sallen-key">>) =>
    LET n == Len(stages)
    IN /\ n >= 1
       /\ Len(InputWires) = n /\ Len(OutputWires) = n
       /\ Len(TextsReading(<<"Vin">>)) = 1
       /\ Len(OfPart("vin")) = 1
       /\ OfPart("vin")[1].text = <<"Vin">>
       /\ X(FirstPt(OfPart("vin")[1])) < X(FirstPt(InputWires[1]))
       /\ Y(FirstPt(OfPart("vin")[1])) = Y(FirstPt(InputWires[1])) + 4
       /\ Len(TextsReading(<<"Vout">>)) = 1
       /\ Len(OfPart("vout")) = 1
       /\ OfPart("vout")[1].text = <<"Vout">>
       /\ X(FirstPt(OfPart("vout")[1])) = X(LastPt(OutputWires[n])) + 4
       /\ Len(InterStage) = n - 1
       /\ \A i \in 1..(n - 1) :
            /\ FirstPt(InterStage[i]) = LastPt(OutputWires[i])
            /\ LastPt(InterStage[i]) = FirstPt(InputWires[i + 1])
       /\ \A m \in 1..Len(Elements) :
            /\ Elements[m].part \notin ImpedanceMarkerParts
            /\ Elements[m].text \notin ImpedanceMarkerTexts

\* three stages rendered, impedances given: two connectors, one Vin, one Vout
C13_Witness ==
  /\ Rendered
  /\ Len(stages) = 3
  /\ sourceImpedance = 50
  /\ loadImpedance = 50
  /\ Len(InterStage) = 2
  /\ Len(OfPart("vin")) = 1
  /\ Len(OfPart("vout")) = 1

(***************************************************************************)
(* The elements of one stage of a Sallen-Key render: from its header up to *)
(* the next header, or up to 'Vout' for the last stage.                    *)
(***************************************************************************)
HeaderPlaces == {m \in 1..Len(Elements) : Elements[m].part = "stage-label"}

\* the place in the scene of the header of stage s
HeaderPlace(s) ==
  CHOOSE m \in HeaderPlaces : Cardinality({h \in HeaderPlaces : h < m}) = s - 1

StageElems(s) ==
  SubSeq(Elements, HeaderPlace(s),
         IF s < Len(stages) THEN HeaderPlace(s + 1) - 1 ELSE Len(Elements) - 1)

FeedbackParts == {"fb-up", "feedback", "fb-across", "fb-down", "fb-back", "fb-dot"}

ShuntParts == {"shunt-wire-top", "shunt", "shunt-wire-bot", "gnd"}

\* e belongs to the feedback path (resp. the shunt branch), its label included
OfFeedback(e) ==
  e.part \in FeedbackParts \/ (e.kind = "text" /\ e.comp.position = "feedback")

OfShunt(e) ==
  e.part \in ShuntParts \/ (e.kind = "text" /\ e.comp.position = "shunt")

HasRole(stage, position) ==
  \E m \in 1..Len(stage.passiveComps) : stage.passiveComps[m].position = position

\* the stage completed by a feedback and a shunt passive where it lacks one
Completed(stage) ==
  [stage EXCEPT !.passiveComps =
     @ \o (IF HasRole(stage, "feedback") THEN <<>>
           ELSE <<Comp(<<"C", "f">>, "capacitor", "feedback")>>)
       \o (IF HasRole(stage, "shunt") THEN <<>>
           ELSE <<Comp(<<"C", "s">>, "capacitor", "shunt")>>)]

Others(elems) == SelectSeq(elems, LAMBDA e : ~OfFeedback(e) /\ ~OfShunt(e))

(***************************************************************************)
(* C14: a Sallen-Key stage without a feedback-role component emits none of *)
(* the feedback-path primitives (riser, glyph, return wires, branch dot,   *)
(* label); a stage without a shunt-role component emits none of the shunt  *)
(* primitives (drop wire, glyph, label, ground symbol).  In both cases,    *)
(* and when both are missing, the render succeeds and every other          *)
(* primitive of the stage is emitted exactly as for the stage completed    *)
(* by the missing components.                                              *)
(***************************************************************************)
C14_MissingSubElementsOmitted ==
  (Rendered /\ invoked = <<"sallen-key">>) =>
    /\ output.kind = "svg"
    /\ Cardinality(HeaderPlaces) = Len(stages)
    /\ \A s \in 1..Len(stages) :
         LET elems == StageElems(s)
         IN /\ ~HasRole(stages[s], "feedback") =>
                 \A m \in 1..Len(elems) : ~OfFeedback(elems[m])
            /\ ~HasRole(stages[s], "shunt") =>
                 \A m \in 1..Len(elems) : ~OfShunt(elems[m])
            /\ Others(elems)
                 = Others(SKStageElements(Completed(stages[s]), s - 1, Len(stages)))
            /\ Len(Others(elems)) >= 15

\* a stage with its op-amp and a series passive but neither feedback nor
\* shunt, next to a complete stage
C14_Witness ==
  /\ Rendered
  /\ Len(stages) = 2
  /\ \E s \in 1..2 :
       /\ ~HasRole(stages[s], "feedback") /\ ~HasRole(stages[s], "shunt")
       /\ HasRole(stages[s], "series")
       /\ stages[s].opamp # NoComp
       /\ \A m \in 1..Len(StageElems(s)) :
            ~OfFeedback(StageElems(s)[m]) /\ ~OfShunt(StageElems(s)[m])
  /\ \E s \in 1..2 :
       /\ HasRole(stages[s], "feedback") /\ HasRole(stages[s], "shunt")
       /\ \E m \in 1..Len(StageElems(s)) : OfFeedback(StageElems(s)[m])
       /\ \E m \in 1..Len(StageElems(s)) : OfShunt(StageElems(s)[m])

\* the id does not start with 'S<digits>_'
NoTag(id) == ~\E n \in 1..Len(id) : HasPrefixOfDigits(id, n, SubSeq(id, n + 3, Len(id)))

UntaggedPassive(i) == NoTag(Items[i].id) /\ ~OpampAt(i)

(***************************************************************************)
(* C15: a component whose id does not start with 'S<digits>_' gets the     *)
(* stage number 0 from parseSallenKeyStages, no error being raised, and    *)
(* is placed in a stage, whose stage number is 0; the passives of a run    *)
(* of consecutive passives with such ids are all in one and the same       *)
(* stage, and a list made of such passives only is parsed into exactly     *)
(* one stage, of stage number 0, holding them all.                         *)
(***************************************************************************)
C15_SentinelStageNumber ==
  (Rendered /\ invoked = <<"sallen-key">>) =>
    /\ output.kind = "svg"
    /\ \A i \in 1..Len(Items) :
         NoTag(Items[i].id) =>
           /\ \E s \in 1..Len(stages) : InStage(Items[i], s)
           /\ \A s \in 1..Len(stages) :
                InStage(Items[i], s) =>
                  /\ stages[s].stageNum = 0
                  /\ StageLabels[s].text = <<"Stage ", "0">>
    /\ \A i, j \in 1..Len(Items) :
         (i < j /\ \A k \in i..j : UntaggedPassive(k)) => SameStage(i, j)
    /\ (\A k \in 1..Len(Items) : UntaggedPassive(k)) =>
         stages = <<[stageNum |-> 0, passiveComps |-> Items, opamp |-> NoComp]>>

\* the passives S_R1, S1R2 and s1_C1, none of which has a tag, parsed into
\* one stage of number 0
C15_Witness ==
  /\ Rendered
  /\ Len(Items) = 3
  /\ Items[1].id = <<"S", "_", "R", "1">>
  /\ Items[2].id = <<"S", "1", "R", "2">>
  /\ Items[3].id = <<"s", "1", "_", "C", "1">>
  /\ \A k \in 1..3 : UntaggedPassive(k)
  /\ Len(stages) = 1
  /\ stages[1].stageNum = 0

(***************************************************************************)
(* Reading the points a glyph generator drew.                              *)
(***************************************************************************)
ZeroLength ==
  segment.mode = "directional" /\ segment.x1 = segment.x2 /\ segment.y1 = segment.y2

AllFinite == \A m \in 1..Len(drawn) : IsFinite(drawn[m].x) /\ IsFinite(drawn[m].y)

BlankAt == CHOOSE i \in 1..Len(formatted) : formatted[i] = " "

PrintedNumber == SubSeq(formatted, 1, BlankAt - 1)

PrintedUnit == SubSeq(formatted, BlankAt + 1, Len(formatted))

\* the digits of the printed number in front of its decimal point
IntegerDigits ==
  IF \E i \in 1..Len(PrintedNumber) : PrintedNumber[i] = "."
  THEN SubSeq(PrintedNumber, 1, (CHOOSE i \in 1..Len(PrintedNumber) : PrintedNumber[i] = ".") - 1)
  ELSE PrintedNumber

\* the printed number is at least 1 and below 1000
PrintedInPrefixRange ==
  /\ Len(IntegerDigits) \in 1..3
  /\ IntegerDigits[1] \in Digits \ {"0"}

\* the number has at most three significant digits
AtMostThreeDigits ==
  Cardinality({i \in 1..Len(PrintedNumber) : PrintedNumber[i] \in Digits}) <= 3

BareUnit ==
  CASE quantity.kind = "capacitance" -> <<"F">>
    [] quantity.kind = "inductance" -> <<"H">>
    [] quantity.kind = "resistance" -> <<OMEGA>>

\* the value is positive and within the prefixes of its formatter: from
\* 1 pF to below 1 F, from 1 uH to below 1000 H, from 1 Ohm to below 1e9 Ohm
InSupportedRange ==
  /\ quantity.value.m > 0
  /\ Magnitude(quantity.value) \in
       (CASE quantity.kind = "capacitance" -> (0 - 12)..(0 - 1)
          [] quantity.kind = "inductance" -> (0 - 6)..2
          [] quantity.kind = "resistance" -> 0..8)

(***************************************************************************)
(* C17: for every non-zero value within the supported prefix range the     *)
(* number printed by formatCapacitance / formatInductance /                *)
(* formatResistance after rounding to 3 significant figures is at least 1  *)
(* and strictly below 1000 for the chosen prefix (999 pF prints '999 pF',  *)
(* 1000 pF prints '1 nF'); the value zero prints '0' and the bare unit.    *)
(***************************************************************************)
C17_LargestApplicablePrefix ==
  formatted # <<>> =>
    /\ InSupportedRange => PrintedInPrefixRange
    /\ quantity = [kind |-> "capacitance", value |-> Dec(999, 0 - 12)]
         => formatted = <<"9", "9", "9", " ", "p", "F">>
    /\ quantity = [kind |-> "capacitance", value |-> Dec(1000, 0 - 12)]
         => formatted = <<"1", " ", "n", "F">>
    /\ quantity.value.m = 0 => formatted = <<"0", " ">> \o BareUnit

(***************************************************************************)
(* C18: after any sequence of field edits and filter-type changes,         *)
(* FilterForm calls onSubmit only for a submit on which validate() reports *)
(* no error: every submitted order is an integer in 1..10, and for the     *)
(* Sallen-Key filter type it is one of 2, 4, 6, 8, 10; a submit with a     *)
(* validation error calls onSubmit zero times and only records the errors. *)
(***************************************************************************)
SubmittedOrdersValid ==
  \A i \in 1..Len(submitted) :
    LET p == submitted[i]
    IN /\ IsInteger(p.order)
       /\ p.order.n \in 1..10
       /\ isSallenKey(p.filterType) => p.order.n \in {2, 4, 6, 8, 10}

\* a step that calls onSubmit starts where validate() reports nothing and
\* calls it once; a step that changes the recorded errors changes nothing else
SubmitStep ==
  /\ submitted' # submitted =>
       /\ validate(form) = {}
       /\ Len(submitted') = Len(submitted) + 1
       /\ SubSeq(submitted', 1, Len(submitted)) = submitted
  /\ validate(form) # {} => submitted' = submitted
  /\ form'.errors # form.errors => form' = [form EXCEPT !.errors = validate(form)]

C18_SubmitOnlyWhenValid == [](SubmittedOrdersValid) /\ [][SubmitStep]_vars

\* the type was changed to Sallen-Key, rounding the order 3 up to 4, and the
\* form was submitted
C18_Witness ==
  /\ submitted # <<>>
  /\ isSallenKey(submitted[1].filterType)
  /\ submitted[1].order = Num(4)

(***************************************************************************)
(* C19: in LadderTLayout a connecting wire is emitted in front of a placed *)
(* item exactly when the right terminal x of the previous item (the left   *)
(* margin for the first item) differs from the left terminal x of the item *)
(* (left edge of a series item, tap x of a shunt item); the wire spans     *)
(* exactly those two points and has positive length.  No wire precedes a   *)
(* series item that comes first or directly follows a shunt item, and a    *)
(* wire of the fixed gap precedes a series item that follows a series item.*)
(***************************************************************************)
WiresBefore(g) ==
  PartOf(IF g.part = "series" THEN "wire-to" ELSE "wire-to-shunt", g.comp)

\* left terminal: the start of a series glyph, the tap of a shunt item
LeftTerminalX(g) == X(FirstPt(g))

\* right terminal: the end of a series glyph, the end of the main-line
\* wire running past a shunt item
RightTerminalX(g) ==
  IF g.part = "series" THEN X(LastPt(g))
  ELSE X(LastPt(PartOf("wire-past-shunt", g.comp)[1]))

PrevEndX(i) == IF i = 1 THEN MARGIN_LEFT ELSE RightTerminalX(Glyphs[i - 1])

C19_WireIffTerminalsApart ==
  (Rendered /\ output.layout = "ladder") =>
    /\ Len(Glyphs) = Len(Items)
    /\ Len(OfPart("wire-to")) + Len(OfPart("wire-to-shunt"))
         = Cardinality({i \in 1..Len(Glyphs) : WiresBefore(Glyphs[i]) # <<>>})
    /\ \A i \in 1..Len(Glyphs) :
         LET g == Glyphs[i]
             w == WiresBefore(g)
             a == PrevEndX(i)
             b == LeftTerminalX(g)
         IN /\ Len(w) = (IF a # b THEN 1 ELSE 0)
            /\ Len(w) = 1 =>
                 /\ w[1].pts = <<Pt(a, LadderLineY), Pt(b, LadderLineY)>>
                 /\ a < b
            /\ (g.part = "series" /\ (i = 1 \/ Glyphs[i - 1].part = "shunt")) => w = <<>>
            /\ (g.part = "series" /\ i > 1 /\ Glyphs[i - 1].part = "series") =>
                 Len(w) = 1 /\ b - a = WIRE_GAP

\* shunt, series, series: a wire to the shunt tap, none to the series item
\* behind the shunt, a gap wire between the two series items
C19_Witness ==
  /\ Rendered
  /\ output.layout = "ladder"
  /\ Len(Glyphs) = 3
  /\ Glyphs[1].part = "shunt" /\ Glyphs[2].part = "series" /\ Glyphs[3].part = "series"
  /\ Len(WiresBefore(Glyphs[1])) = 1
  /\ WiresBefore(Glyphs[2]) = <<>>
  /\ Len(WiresBefore(Glyphs[3])) = 1

(***************************************************************************)
(* C20: ladder geometry depends only on array order and role, never on     *)
(* component type: a ladder input of the same length with the same role at *)
(* every index and any other types yields the same horizontal position for *)
(* every placed item, the same main-line connecting wires and the same     *)
(* canvas width and height.                                                *)
(***************************************************************************)
ComponentTypes == {"resistor", "inductor", "capacitor"}

Retyped(comps, types) == [i \in 1..Len(comps) |-> [comps[i] EXCEPT !.type = types[i]]]

GlyphsIn(scene) == SelectSeq(scene.elements, LAMBDA e : e.kind = "glyph")

\* the horizontal position of every placed item, in order
PositionsIn(scene) == [i \in 1..Len(GlyphsIn(scene)) |-> X(GlyphsIn(scene)[i].pts[1])]

\* the wires on the main line, in order: their part and their end points
MainLineWiresIn(scene) ==
  LET wires == SelectSeq(scene.elements,
                 LAMBDA e : e.kind = "line"
                            /\ e.part \in {"rs", "wire-to", "wire-to-shunt",
                                           "wire-past-shunt", "wire-to-rl"})
  IN [i \in 1..Len(wires) |-> <<wires[i].part, wires[i].pts>>]

SameGeometry(a, b) ==
  /\ PositionsIn(a) = PositionsIn(b)
  /\ MainLineWiresIn(a) = MainLineWiresIn(b)
  /\ a.width = b.width
  /\ a.height = b.height

C20_GeometryIndependentOfType ==
  (Rendered /\ output.layout = "ladder") =>
    \A types \in [1..Len(Items) -> ComponentTypes] :
      SameGeometry(output,
                   LadderTLayout(Retyped(Items, types), sourceImpedance, loadImpedance))

\* a rendered ladder with a series capacitor and a shunt inductor, whose
\* retyping to a series inductor and a shunt capacitor is another input
C20_Witness ==
  /\ Rendered
  /\ output.layout = "ladder"
  /\ Len(Items) = 3
  /\ Items[1].position = "series" /\ Items[1].type = "capacitor"
  /\ Items[2].position = "shunt" /\ Items[2].type = "inductor"
  /\ Items[3].position = "series" /\ Items[3].type = "resistor"
  /\ Len(MainLineWiresIn(output)) = 4
  /\ Retyped(Items, <<"inductor", "capacitor", "capacitor">>) # Items

(***************************************************************************)
(* Reading the wiring of one Sallen-Key stage.                             *)
(***************************************************************************)
\* the elements of one part within a sequence of elements
Within(elems, part) == SelectSeq(elems, LAMBDA e : e.part = part)

\* every element of the chain starts where the one before it ends
Connected(chain) ==
  \A m \in 1..(Len(chain) - 1) : LastPt(chain[m]) = FirstPt(chain[m + 1])

\* the pins of an op-amp glyph at (x, y): + at (x, y+10), - at (x, y+30),
\* output at (x+40, y+20)
NonInvertingPin(g) == Pt(X(g.pts[1]), Y(g.pts[1]) + 10)

InvertingPin(g) == Pt(X(g.pts[1]), Y(g.pts[1]) + 30)

OutputPin(g) == g.pts[2]

\* p lies on the horizontal wire w
OnWire(p, w) ==
  /\ Y(FirstPt(w)) = Y(LastPt(w))
  /\ Y(p) = Y(FirstPt(w))
  /\ X(FirstPt(w)) <= X(p)
  /\ X(p) <= X(LastPt(w))

(***************************************************************************)
(* C21: in every Sallen-Key stage the unity-gain loop from the op-amp's    *)
(* inverting input is emitted whether or not the stage has a feedback      *)
(* component, runs entirely below the signal line, and terminates at the   *)
(* same output branch point as the passive feedback path: the branch dot   *)
(* ending the unity-gain loop and the branch dot ending the feedback path  *)
(* are one and the same point on the output wire.                          *)
(***************************************************************************)
UnityGainLoopDrawn(elems) ==
  LET loop == Within(elems, "inv-loop")
      dot == Within(elems, "inv-dot")
      opamp == Within(elems, "opamp")
      out == Within(elems, "output-wire")
  IN /\ Len(loop) = 5 /\ Len(dot) = 1 /\ Len(opamp) = 1 /\ Len(out) = 1
     /\ Connected(loop)
     /\ FirstPt(loop[1]) = InvertingPin(opamp[1])
     /\ LastPt(loop[5]) = OutputPin(opamp[1])
     /\ \A m \in 1..5 : \A k \in 1..2 : Y(loop[m].pts[k]) > skLineY
     /\ FirstPt(dot[1]) = LastPt(loop[4])
     /\ OnWire(FirstPt(dot[1]), out[1])

C21_LoopEndsAtFeedbackBranchPoint ==
  (Rendered /\ invoked = <<"sallen-key">>) =>
    \A s \in 1..Len(stages) :
      LET elems == StageElems(s)
      IN /\ UnityGainLoopDrawn(elems)
         /\ HasRole(stages[s], "feedback") =>
              /\ Len(Within(elems, "fb-dot")) = 1
              /\ FirstPt(Within(elems, "fb-dot")[1]) = FirstPt(Within(elems, "inv-dot")[1])

(***************************************************************************)
(* C22: in every Sallen-Key stage that has a feedback component the        *)
(* feedback path is connected end to end: it starts at junction A on the   *)
(* signal line, rises to one fixed clearance height above the signal line, *)
(* runs horizontally through the feedback glyph to an x strictly beyond    *)
(* the op-amp's output point, then descends to the output level, and it    *)
(* ends with a branch dot on that stage's output wire, between the op-amp  *)
(* output point and the stage's right edge.                                *)
(***************************************************************************)
FeedbackPathConnected(elems) ==
  LET up == Within(elems, "fb-up")
      glyph == Within(elems, "feedback")
      across == Within(elems, "fb-across")
      down == Within(elems, "fb-down")
      dot == Within(elems, "fb-dot")
      junctionA == Within(elems, "junction1")
      opamp == Within(elems, "opamp")
      out == Within(elems, "output-wire")
  IN /\ Len(up) = 1 /\ Len(glyph) = 1 /\ Len(across) = 1 /\ Len(down) = 1
     /\ Len(dot) = 1 /\ Len(junctionA) = 1 /\ Len(opamp) = 1 /\ Len(out) = 1
     /\ FirstPt(up[1]) = FirstPt(junctionA[1])
     /\ Y(FirstPt(up[1])) = skLineY
     /\ Connected(up \o glyph \o across \o down)
     /\ X(LastPt(up[1])) = X(FirstPt(up[1]))
     /\ Y(LastPt(up[1])) = fbPathY
     /\ fbPathY < skLineY
     /\ Y(FirstPt(glyph[1])) = fbPathY
     /\ Y(LastPt(glyph[1])) = fbPathY
     /\ X(FirstPt(glyph[1])) < X(LastPt(glyph[1]))
     /\ Y(LastPt(across[1])) = fbPathY
     /\ X(LastPt(across[1])) > X(OutputPin(opamp[1]))
     /\ X(LastPt(down[1])) = X(FirstPt(down[1]))
     /\ Y(LastPt(down[1])) = Y(OutputPin(opamp[1]))
     /\ FirstPt(dot[1]) = LastPt(down[1])
     /\ FirstPt(out[1]) = OutputPin(opamp[1])
     /\ OnWire(FirstPt(dot[1]), out[1])

SignalPathConnected(elems) ==
  LET chain == Within(elems, "input-wire") \o Within(elems, "series1")
               \o Within(elems, "wire-to-junction1") \o Within(elems, "wire-to-series2")
               \o Within(elems, "series2") \o Within(elems, "wire-to-junction2")
               \o Within(elems, "wire-to-opamp")
      junctionA == Within(elems, "junction1")
      junctionB == Within(elems, "junction2")
      opamp == Within(elems, "opamp")
  IN /\ Len(chain) = 7
     /\ chain[2].kind = "glyph" /\ chain[5].kind = "glyph"
     /\ Len(junctionA) = 1 /\ Len(junctionB) = 1 /\ Len(opamp) = 1
     /\ Connected(chain)
     /\ \A m \in 1..7 :
          /\ Y(FirstPt(chain[m])) = skLineY
          /\ Y(LastPt(chain[m])) = skLineY
          /\ X(FirstPt(chain[m])) < X(LastPt(chain[m]))
     /\ FirstPt(junctionA[1]) = LastPt(chain[3])
     /\ FirstPt(junctionB[1]) = LastPt(chain[6])
     /\ LastPt(chain[7]) = NonInvertingPin(opamp[1])

C23_SignalPathConnected ==
  (Rendered /\ invoked = <<"sallen-key">>) =>
    \A s \in 1..Len(stages) :
      Len(WithPosition(stages[s].passiveComps, "series")) = 2
        => SignalPathConnected(StageElems(s))

\* three stages with two series resistors each
C23_Witness ==
  /\ Rendered
  /\ invoked = <<"sallen-key">>
  /\ Len(stages) = 3
  /\ \A s \in 1..3 :
       /\ Len(WithPosition(stages[s].passiveComps, "series")) = 2
       /\ Len(Within(StageElems(s), "series1")) = 1
       /\ Len(Within(StageElems(s), "series2")) = 1
       /\ X(FirstPt(Within(StageElems(s), "input-wire")[1]))
            = skMarginL + (s - 1) * (stageW + stageGap)

(***************************************************************************)
(* Reading the corners and the ports of a lattice render.  The four nodes  *)
(* of a section are emitted in the order TL, TR, BL, BR.                   *)
(***************************************************************************)
Corner(k, c) == FirstPt(OfPart("node")[4 * (k - 1) + c])

TLof(k) == Corner(k, 1)
TRof(k) == Corner(k, 2)
BLof(k) == Corner(k, 3)
BRof(k) == Corner(k, 4)

LinesOf(part) == ElementsWhere(LAMBDA e : e.part = part /\ e.kind = "line")

DotsOf(part) == ElementsWhere(LAMBDA e : e.part = part /\ e.kind = "circle")

\* the polarity marks standing at the x of a port terminal
PolarityAt(x) ==
  ElementsWhere(LAMBDA e : e.part = "polarity" /\ X(FirstPt(e)) = x)

(***************************************************************************)
(* C24: for s >= 1 sections the lattice output contains exactly one source *)
(* port (Rs marker, polarity marks, two leads) attached to the two left    *)
(* corners of the first section and exactly one load port attached to the  *)
(* two right corners of the last section, and no other section exposes a   *)
(* port; for an input of fewer than 2 components (s = 0) the layout emits  *)
(* an empty diagram with no section and no port, without error.            *)
(***************************************************************************)
C24_LatticePorts ==
  (Rendered /\ invoked = <<"lattice">>) =>
    /\ output.kind = "svg"
    /\ SectionsDrawn = Len(Items) \div 2
    /\ Len(OfPart("node")) = 4 * SectionsDrawn
    /\ Len(Items) < 2 => Elements = <<>>
    /\ SectionsDrawn >= 1 =>
         LET s == SectionsDrawn
             src == LinesOf("source")
             load == LinesOf("load")
         IN /\ Len(src) = 2 /\ Len(DotsOf("source")) = 2
            /\ Len(load) = 2 /\ Len(DotsOf("load")) = 2
            /\ Len(TextsReading(<<"Rs">>)) >= 1
            /\ Len(OfPart("port-name")) = 2
            /\ OfPart("port-name")[1].text = <<"Rs">>
            /\ OfPart("port-name")[2].text = <<"Rl">>
            /\ Len(OfPart("port-value")) = 2
            /\ Len(OfPart("polarity")) = 4
            \* the source: leads from the terminals to TL and BL of section 1
            /\ LastPt(src[1]) = TLof(1) /\ LastPt(src[2]) = BLof(1)
            /\ FirstPt(src[1]) = FirstPt(DotsOf("source")[1])
            /\ FirstPt(src[2]) = FirstPt(DotsOf("source")[2])
            /\ X(FirstPt(src[1])) < X(TLof(1))
            /\ Len(PolarityAt(X(FirstPt(src[1])))) = 2
            /\ X(FirstPt(OfPart("port-name")[1])) < X(TLof(1))
            \* the load: leads from TR and BR of section s to the terminals
            /\ FirstPt(load[1]) = TRof(s) /\ FirstPt(load[2]) = BRof(s)
            /\ LastPt(load[1]) = FirstPt(DotsOf("load")[1])
            /\ LastPt(load[2]) = FirstPt(DotsOf("load")[2])
            /\ X(LastPt(load[1])) > X(TRof(s))
            /\ Len(PolarityAt(X(LastPt(load[1])))) = 2
            /\ X(FirstPt(OfPart("port-name")[2])) > X(TRof(s))

\* two sections: the source on the left corners of the first, the load on
\* the right corners of the second
C24_Witness ==
  /\ Rendered
  /\ invoked = <<"lattice">>
  /\ SectionsDrawn = 2
  /\ LastPt(LinesOf("source")[1]) = TLof(1)
  /\ FirstPt(LinesOf("load")[1]) = TRof(2)
  /\ TRof(2) # TRof(1)

(***************************************************************************)
(* C25: lattice sections are placed left to right in input order at one    *)
(* fixed pitch (section width plus fixed gap) so that no two sections      *)
(* overlap, and for every section after the first both rails are joined to *)
(* the previous section by a wire running exactly from the previous        *)
(* section's right corner to this section's left corner; the top rail and  *)
(* the bottom rail are each continuous from the source port to the load    *)
(* port.                                                                   *)
(***************************************************************************)
\* the two wires joining section k to section k - 1 (k >= 2): top, bottom
JoinTop(k) == OfPart("inter-section")[2 * (k - 2) + 1]

JoinBottom(k) == OfPart("inter-section")[2 * (k - 2) + 2]

\* the rail from the source lead to the load lead: lead, then for every
\* section its join wire (after the first) and its rail glyph, then lead
RECURSIVE RailChain(_, _)
RailChain(top, k) ==
  IF k = 0 THEN <<LinesOf("source")[IF top THEN 1 ELSE 2]>>
  ELSE RailChain(top, k - 1)
       \o (IF k > 1 THEN <<IF top THEN JoinTop(k) ELSE JoinBottom(k)>> ELSE <<>>)
       \o <<OfPart(IF top THEN "za-top" ELSE "za-bot")[k]>>

C25_SectionsChained ==
  (Rendered /\ invoked = <<"lattice">> /\ SectionsDrawn >= 1) =>
    LET s == SectionsDrawn
    IN /\ Len(OfPart("node")) = 4 * s
       /\ Len(OfPart("za-top")) = s /\ Len(OfPart("za-bot")) = s
       /\ Len(OfPart("inter-section")) = 2 * (s - 1)
       /\ \A k \in 1..s :
            /\ RailComp(k) = Items[2 * k - 1]
            /\ DiagonalComp(k) = Items[2 * k]
            /\ X(TRof(k)) - X(TLof(k)) = sectionW
            /\ X(BLof(k)) = X(TLof(k)) /\ X(BRof(k)) = X(TRof(k))
            /\ Y(TLof(k)) = Y(TRof(k)) /\ Y(BLof(k)) = Y(BRof(k))
            /\ Y(TLof(k)) = Y(TLof(1)) /\ Y(BLof(k)) = Y(BLof(1))
            /\ X(TLof(k)) = X(TLof(1)) + (k - 1) * (sectionW + gapBetween)
       /\ \A k \in 2..s :
            /\ X(TRof(k - 1)) < X(TLof(k))
            /\ JoinTop(k).pts = <<TRof(k - 1), TLof(k)>>
            /\ JoinBottom(k).pts = <<BRof(k - 1), BLof(k)>>
       /\ \A top \in BOOLEAN :
            LET chain == RailChain(top, s) \o <<LinesOf("load")[IF top THEN 1 ELSE 2]>>
            IN /\ Len(chain) = 2 * s + 1
               /\ Connected(chain)
               /\ \A m \in 1..Len(chain) :
                    /\ Y(FirstPt(chain[m])) = (IF top THEN Y(TLof(1)) ELSE Y(BLof(1)))
                    /\ Y(LastPt(chain[m])) = Y(FirstPt(chain[m]))
                    /\ X(FirstPt(chain[m])) < X(LastPt(chain[m]))

\* two sections joined by the two wires between them
C25_Witness ==
  /\ Rendered
  /\ invoked = <<"lattice">>
  /\ SectionsDrawn = 2
  /\ Len(OfPart("inter-section")) = 2
  /\ JoinTop(2).pts = <<TRof(1), TLof(2)>>
  /\ X(TLof(2)) - X(TRof(1)) = gapBetween

(***************************************************************************)
(* C26: in every lattice section each of the two diagonals (TL to BR and   *)
(* BL to TR) is made of exactly one glyph-bearing half and one plain-wire  *)
(* half that meet at the section's geometric centre and together join the  *)
(* diagonal's two corners; the two diagonals carry their glyph on opposite *)
(* halves (TL-to-centre for the TL-BR arm, centre-to-TR for the BL-TR      *)
(* arm), so the two glyph-bearing segments have no point in common except  *)
(* the centre.                                                             *)
(***************************************************************************)
\* p is the midpoint of a and b
IsMidpoint(p, a, b) == 2 * X(p) = X(a) + X(b) /\ 2 * Y(p) = Y(a) + Y(b)

\* the segments a-c and c-b are not on one line
NotCollinear(a, c, b) ==
  (X(c) - X(a)) * (Y(b) - Y(c)) # (Y(c) - Y(a)) * (X(b) - X(c))

\* the points the generator emits for the glyph g drawn between its terminals
PointsOf(g) ==
  DirectionalPoints(g.gtype, X(FirstPt(g)), Y(FirstPt(g)), X(LastPt(g)), Y(LastPt(g)))

\* every emitted point of g but the one at the centre c lies left (resp.
\* right) of c
KeepsLeftOf(g, c) ==
  \A m \in 1..Len(PointsOf(g)) :
    \/ PointsOf(g)[m] = NumPt(Num(X(c)), Num(Y(c)))
    \/ NumLess(PointsOf(g)[m].x, Num(X(c)))

KeepsRightOf(g, c) ==
  \A m \in 1..Len(PointsOf(g)) :
    \/ PointsOf(g)[m] = NumPt(Num(X(c)), Num(Y(c)))
    \/ NumLess(Num(X(c)), PointsOf(g)[m].x)

C26_DiagonalsSplitAtCentre ==
  (Rendered /\ invoked = <<"lattice">>) =>
    /\ \A part \in {"zb1", "zb1-wire", "zb2", "zb2-wire"} :
         Len(OfPart(part)) = SectionsDrawn
    /\ Len(OfPart("node")) = 4 * SectionsDrawn
    /\ \A k \in 1..SectionsDrawn :
         LET zb1 == OfPart("zb1")[k]
             wire1 == OfPart("zb1-wire")[k]
             zb2 == OfPart("zb2")[k]
             wire2 == OfPart("zb2-wire")[k]
             centre == LastPt(zb1)
         IN /\ zb1.kind = "glyph" /\ zb2.kind = "glyph"
            /\ wire1.kind = "line" /\ wire2.kind = "line"
            /\ IsMidpoint(centre, TLof(k), BRof(k))
            /\ IsMidpoint(centre, BLof(k), TRof(k))
            \* TL to BR: glyph from TL to the centre, wire from the centre to BR
            /\ FirstPt(zb1) = TLof(k)
            /\ wire1.pts = <<centre, BRof(k)>>
            \* BL to TR: wire from BL to the centre, glyph from the centre to TR
            /\ wire2.pts = <<BLof(k), centre>>
            /\ FirstPt(zb2) = centre
            /\ LastPt(zb2) = TRof(k)
            \* the glyph-bearing halves meet at the centre only
            /\ NotCollinear(TLof(k), centre, TRof(k))
            /\ PointsOf(zb1)[1] = NumPt(Num(X(TLof(k))), Num(Y(TLof(k))))
            /\ PointsOf(zb2)[Len(PointsOf(zb2))] = NumPt(Num(X(TRof(k))), Num(Y(TRof(k))))
            /\ KeepsLeftOf(zb1, centre)
            /\ KeepsRightOf(zb2, centre)

\* two sections, capacitors on the diagonals of one and resistors on those
\* of the other
C26_Witness ==
  /\ Rendered
  /\ invoked = <<"lattice">>
  /\ SectionsDrawn = 2
  /\ OfPart("zb1")[1].gtype = "capacitor"
  /\ OfPart("zb1")[2].gtype = "resistor"
  /\ LastPt(OfPart("zb1")[2]) = FirstPt(OfPart("zb2")[2])
  /\ Len(PointsOf(OfPart("zb2")[2])) = 9

(***************************************************************************)
(* C27: every passive glyph touches its requested terminal points exactly: *)
(* for each type (resistor, inductor, capacitor) and each mounting mode    *)
(* (fixed horizontal SeriesGlyph, fixed vertical ShuntGlyph, arbitrary-    *)
(* direction DirectionalGlyph on a segment of non-zero length) the chain   *)
(* of emitted primitives begins exactly at the first terminal and ends     *)
(* exactly at the second; in the fixed-width modes the distance between    *)
(* the terminals is the constant slot length for the mode and type (60     *)
(* horizontally for every type; vertically 60 for resistor and inductor,   *)
(* 40 for capacitor).                                                      *)
(***************************************************************************)
\* the terminals asked for: the ends of the segment; for a series glyph at
\* (x, y) the points (x, y+10) and (x+60, y+10); for a shunt glyph at
\* (centerX, topY) the points (centerX, topY) and (centerX, topY + 60 or 40)
FirstTerminal ==
  CASE segment.mode = "directional" -> NumPt(Num(segment.x1), Num(segment.y1))
    [] segment.mode = "series" -> NumPt(Num(segment.x1), Num(segment.y1 + 10))
    [] segment.mode = "shunt" -> NumPt(Num(segment.x1), Num(segment.y1))

SecondTerminal ==
  CASE segment.mode = "directional" -> NumPt(Num(segment.x2), Num(segment.y2))
    [] segment.mode = "series" -> NumPt(Num(segment.x1 + 60), Num(segment.y1 + 10))
    [] segment.mode = "shunt" ->
         NumPt(Num(segment.x1),
               Num(segment.y1 + (IF segment.type = "capacitor" THEN 40 ELSE 60)))

C27_GlyphTouchesTerminals ==
  (drawn # <<>> /\ ~ZeroLength) =>
    /\ Len(drawn) >= 4
    /\ AllFinite
    /\ drawn[1] = FirstTerminal
    /\ drawn[Len(drawn)] = SecondTerminal
    /\ segment.mode = "series" =>
         /\ NumSub(drawn[Len(drawn)].x, drawn[1].x) = Num(60)
         /\ \A m \in 1..Len(drawn) : drawn[m].y = drawn[1].y \/ segment.type = "resistor"
    /\ segment.mode = "shunt" =>
         /\ NumSub(drawn[Len(drawn)].y, drawn[1].y)
              = Num(IF segment.type = "capacitor" THEN 40 ELSE 60)
         /\ drawn[Len(drawn)].x = drawn[1].x

\* a resistor drawn along the lattice diagonal from (40, 40) to (120, 100)
C27_Witness ==
  /\ drawn # <<>>
  /\ segment = [mode |-> "directional", type |-> "resistor",
                x1 |-> 40, y1 |-> 40, x2 |-> 120, y2 |-> 100]
  /\ drawn[1] = NumPt(Num(40), Num(40))
  /\ drawn[Len(drawn)] = NumPt(Num(120), Num(100))
  /\ Len(drawn) = 9

(***************************************************************************)
(* C28: the ladder main signal line is gap-free for every input: the       *)
(* main-line segments emitted by LadderTLayout (source lead, connecting    *)
(* wires, the spans of the series glyphs, the wires past each shunt tap,   *)
(* the wire to the load) tile the interval from the source node (x = 40)   *)
(* to the load node (x = final cursor + 40) with no gap and no overlap,    *)
(* and the running right-terminal position prevEndX never exceeds the left *)
(* terminal of the next placed item.                                       *)
(***************************************************************************)
MainLineParts == {"rs", "wire-to", "wire-to-shunt", "wire-past-shunt", "wire-to-rl"}

\* the main-line segments in the order they are emitted: the wires and the
\* spans of the series glyphs, each from its first to its last point
MainLineSegments ==
  ElementsWhere(LAMBDA e : \/ e.kind = "line" /\ e.part \in MainLineParts
                           \/ e.kind = "glyph" /\ e.part = "series")

\* the cursor after the last item: every series item advances it by the
\* slot and the gap, every other item by the shunt section
FinalCursor ==
  LET series == Cardinality({i \in 1..Len(Items) : Items[i].position = "series"})
  IN MARGIN_LEFT + series * (SERIES_W + WIRE_GAP)
       + (Len(Items) - series) * SHUNT_SECTION_W

C28_MainLineGapFree ==
  (Rendered /\ output.layout = "ladder") =>
    LET segs == MainLineSegments
        n == Len(segs)
    IN /\ n >= 2
       /\ segs[1].part = "rs"
       /\ segs[n].part = "wire-to-rl"
       /\ X(FirstPt(segs[1])) = 40
       /\ X(LastPt(segs[n])) = FinalCursor + 40
       /\ OfPart("rs")[1].pts[1] = Pt(40, LadderLineY)
       /\ OfPart("rl")[1].pts[1] = Pt(FinalCursor + 40, LadderLineY)
       /\ \A k \in 1..n :
            /\ Y(FirstPt(segs[k])) = LadderLineY
            /\ Y(LastPt(segs[k])) = LadderLineY
            /\ X(FirstPt(segs[k])) < X(LastPt(segs[k]))
       /\ \A k \in 1..(n - 1) : X(LastPt(segs[k])) = X(FirstPt(segs[k + 1]))
       /\ Len(Glyphs) = Len(Items)
       /\ \A i \in 1..Len(Glyphs) : PrevEndX(i) <= LeftTerminalX(Glyphs[i])

\* series, shunt, series: lead, glyph, wire to the tap, wire past the tap,
\* glyph, wire to the load
C28_Witness ==
  /\ Rendered
  /\ output.layout = "ladder"
  /\ Len(Items) = 3
  /\ Items[1].position = "series" /\ Items[2].position = "shunt"
  /\ Items[3].position = "series"
  /\ [k \in 1..Len(MainLineSegments) |-> MainLineSegments[k].part]
       = <<"rs", "series", "wire-to-shunt", "wire-past-shunt", "series", "wire-to-rl">>
  /\ X(LastPt(MainLineSegments[6])) = FinalCursor + 40
  /\ PrevEndX(2) < LeftTerminalX(Glyphs[2])

(***************************************************************************)
(* C29: parseSallenKeyStages is an order-preserving partition of its       *)
(* input: concatenating, in stage order, each stage's passives followed by *)
(* its op-amp (when it has one) reproduces the input list exactly; no      *)
(* stage is empty, each stage holds at most one op-amp, every op-amp of    *)
(* the input is the op-amp of exactly one stage, and a non-empty input     *)
(* yields at least one stage.                                              *)
(***************************************************************************)
\* the stages laid end to end
StagesFlattened == Concat([s \in 1..Len(stages) |-> Members(stages[s])])

\* the op-amps among the members of stage s
OpampsOfStage(s) ==
  Cardinality({m \in 1..Len(Members(stages[s])) : Members(stages[s])[m].type = "opamp"})

\* the stages whose op-amp is the component at place i of the input
StagesWithOpampAt(i) ==
  {s \in 1..Len(stages) : stages[s].opamp # NoComp /\ MembersThrough(s) = i}

C29_StagesPartitionInput ==
  (Rendered /\ invoked = <<"sallen-key">>) =>
    /\ StagesFlattened = Items
    /\ MembersThrough(Len(stages)) = Len(Items)
    /\ \A s \in 1..Len(stages) :
         /\ Members(stages[s]) # <<>>
         /\ OpampsOfStage(s) <= 1
         /\ \A m \in 1..Len(stages[s].passiveComps) :
              stages[s].passiveComps[m].type # "opamp"
    /\ \A i \in 1..Len(Items) :
         Cardinality(StagesWithOpampAt(i)) = (IF OpampAt(i) THEN 1 ELSE 0)
    /\ Len(Items) > 0 => Len(stages) >= 1

\* an op-amp first, passives of stage 1, a passive of stage 2 left without
\* an op-amp: three stages
C29_Witness ==
  /\ Rendered
  /\ invoked = <<"sallen-key">>
  /\ Len(Items) = 3
  /\ OpampAt(1) /\ ~OpampAt(2) /\ ~OpampAt(3)
  /\ Tag(2) # Tag(3)
  /\ Len(stages) = 3
  /\ stages[1].passiveComps = <<>> /\ stages[1].opamp = Items[1]
  /\ stages[3].opamp = NoComp /\ stages[3].passiveComps = <<Items[3]>>

(***************************************************************************)
(* C30: canvas containment: for each of the three layouts and every input, *)
(* every anchor coordinate of every emitted primitive (line end points,    *)
(* circle centres, polyline and path points of the fixed-width glyphs,     *)
(* text anchors, ground symbols) satisfies 0 <= x <= canvas width and      *)
(* 0 <= y <= canvas height, where the width grows with the number of       *)
(* placed items (ladder: final cursor + 100), sections (lattice) or stages *)
(* (Sallen-Key) and the height is fixed per layout.                        *)
(***************************************************************************)
\* one call of CircuitDiagram with the props of any of the three layouts
InitCanvas == InitLadder \/ InitLattice \/ InitSallenKey

SpecCanvas == InitCanvas /\ [][Next]_vars

\* every anchor point of an element: its own points and those of its marks
AnchorsOf(e) == e.pts \o e.extra

OnCanvas(p) ==
  /\ 0 <= X(p) /\ X(p) <= output.width
  /\ 0 <= Y(p) /\ Y(p) <= output.height

CanvasWidth ==
  CASE output.layout = "ladder" -> FinalCursor + 100
    [] output.layout = "lattice" ->
         latticeMarginL + (Len(Items) \div 2) * (sectionW + gapBetween) - gapBetween
           + latticeMarginR
    [] output.layout = "sallen-key" ->
         skMarginL + Len(stages) * (stageW + stageGap) - stageGap + skMarginR

CanvasHeight ==
  CASE output.layout = "ladder" -> GND_Y + 20
    [] output.layout = "lattice" -> latticeTopPad + railGap + 50
    [] output.layout = "sallen-key" -> gndY + 30

C30_CanvasContainment ==
  (Rendered /\ output.kind = "svg") =>
    /\ output.layout \in {"ladder", "lattice", "sallen-key"}
    /\ output.width = CanvasWidth
    /\ output.height = CanvasHeight
    /\ \A k \in 1..Len(Elements) :
         \A m \in 1..Len(AnchorsOf(Elements[k])) : OnCanvas(AnchorsOf(Elements[k])[m])

\* a cascade of two Sallen-Key stages on a canvas 800 wide and 250 high,
\* with the Vout label 36 short of the right edge and the lowest bar of a
\* ground symbol 16 short of the bottom edge
C30_Witness ==
  /\ Rendered
  /\ output.kind = "svg"
  /\ output.layout = "sallen-key"
  /\ Len(stages) = 2
  /\ output.width = 800 /\ output.height = 250
  /\ X(OfPart("vout")[1].pts[1]) = 764
  /\ \E k \in 1..Len(Elements) :
       /\ Elements[k].kind = "ground"
       /\ \E m \in 1..Len(Elements[k].extra) : Y(Elements[k].extra[m]) = 234

====
